---- MODULE Spec2Model ----
(***************************************************************************)
(* A model of code_query_cli: the tool-calling conversation loop           *)
(* (client.go), the tool executor with its path validator (tools.go) and   *)
(* the sensitive-path filter (ignore.go).                                  *)
(*                                                                         *)
(* Text.  A Go string is modelled as a sequence of string chunks; paths    *)
(* and patterns are written one character per chunk, so that the lexical   *)
(* operations of the code (Clean, Base, Match, HasPrefix, Index) work on    *)
(* characters as they do in Go.  Concatenation and formatting are \o.      *)
(***************************************************************************)
EXTENDS Naturals, Sequences, FiniteSets, TLC

VARIABLES
    \* ---- Client (client.go) ----
    messages,        \* Client.messages: the conversation history
    pc,              \* position of the single Chat caller
    idx,             \* index of the tool call being processed in the range loop
    assistantMsg,    \* local variable assistantMsg of Chat
    result,          \* local variable result of the tool loop
    toolErr,         \* local variable err of the tool loop: the error of ExecuteTool
    ret,             \* what the last Chat call returned: [answer, err]
    inflight,        \* number of HTTP requests issued and not yet answered
    hasCb,           \* whether the caller supplied onToolCall (non-nil)
    \* ---- history variables of the current Chat call ----
    pre,             \* the history when Chat was called
    rounds,          \* number of tool calls of each completed-or-current tool round
    log,             \* events of the current Chat call, in order
    \* ---- process-wide state and environment ----
    blockedPatterns, \* ignore.go: var blockedPatterns
    cwd,             \* the working directory of the process
    fs,              \* the files below the working directory: clean path -> content
    dirs,            \* the directories that exist (clean paths)
    \* ---- harness of the single-call specifications ----
    arg,             \* the input of the call under study
    res,             \* its result
    phase,           \* "in" before the call, "out" after it
    ncalls,          \* number of calls made so far
    written,         \* target -> the contents successful write_markdown calls wrote
    \* ---- Spinner (ui.go) ----
    spinner,         \* the Spinner struct: [running, stop, stopped, mu]
    chans,           \* the channels made so far: "open" or "closed", by channel number
    callers,         \* the threads calling Start and Stop: position and local channel
    animations,      \* the animation goroutines started: position and deferred channel
    panicked         \* the runtime panicked (close of closed channel)

sessionVars == <<messages, pc, idx, assistantMsg, result, toolErr, ret, inflight, hasCb, pre, rounds, log>>
envVars == <<blockedPatterns, cwd, fs, dirs>>
harnessVars == <<arg, res, phase, ncalls, written>>
spinnerVars == <<spinner, chans, callers, animations, panicked>>
vars == <<messages, pc, idx, assistantMsg, result, toolErr,
          ret, inflight, hasCb, pre, rounds, log,
          blockedPatterns, cwd, fs, dirs, arg, res, phase, ncalls, written,
          spinner, chans, callers, animations, panicked>>

\* the specifications that do not animate a spinner
SpinnerOff ==
    /\ spinner = <<>> /\ chans = <<>> /\ callers = <<>> /\ animations = <<>>
    /\ panicked = FALSE

(***************************************************************************)
(* Bounds of the model.                                                    *)
(***************************************************************************)
MaxPathLen == 5
MaxToolCalls == 3
MaxMsgs == 7
MaxCalls == 2

(***************************************************************************)
(* strings: the operations of package strings the code uses.               *)
(***************************************************************************)
Nil == <<"<nil>">>          \* the nil error
Empty == <<>>               \* the empty string ""
Dot == <<".">>
DotDot == <<".", ".">>
Slash == <<"/">>

HasPrefix(s, p) == Len(p) <= Len(s) /\ SubSeq(s, 1, Len(p)) = p

HasSuffix(s, p) == Len(p) <= Len(s) /\ SubSeq(s, Len(s) - Len(p) + 1, Len(s)) = p

\* strings.Index(s, c) for a one-character c, 1-based; 0 when c does not occur
\* (Go's -1).
Index(s, c) ==
    IF \E i \in 1..Len(s) : s[i] = c
    THEN CHOOSE i \in 1..Len(s) : s[i] = c /\ \A j \in 1..(i - 1) : s[j] # c
    ELSE 0

Contains(s, c) == \E i \in 1..Len(s) : s[i] = c

RECURSIVE Split(_, _)
Split(s, sep) ==
    LET i == Index(s, sep)
    IN  IF i = 0 THEN <<s>>
        ELSE <<SubSeq(s, 1, i - 1)>> \o Split(SubSeq(s, i + 1, Len(s)), sep)

RECURSIVE Join(_, _)
Join(ss, sep) ==
    IF ss = <<>> THEN Empty
    ELSE IF Len(ss) = 1 THEN ss[1]
    ELSE ss[1] \o <<sep>> \o Join(Tail(ss), sep)

(***************************************************************************)
(* path/filepath: Clean, IsAbs, Abs, Base, Dir, Match (Unix).              *)
(***************************************************************************)
RECURSIVE CleanSegs(_, _, _)
CleanSegs(segs, out, rooted) ==
    IF segs = <<>> THEN out
    ELSE LET s == Head(segs)
             r == Tail(segs)
         IN  IF s = Empty \/ s = Dot THEN CleanSegs(r, out, rooted)
             ELSE IF s = DotDot
                  THEN IF out # <<>> /\ out[Len(out)] # DotDot
                       THEN CleanSegs(r, SubSeq(out, 1, Len(out) - 1), rooted)
                       ELSE IF rooted THEN CleanSegs(r, out, rooted)
                            ELSE CleanSegs(r, Append(out, DotDot), rooted)
                  ELSE CleanSegs(r, Append(out, s), rooted)

IsAbs(path) == HasPrefix(path, Slash)

Clean(path) ==
    IF path = Empty THEN Dot
    ELSE LET rooted == IsAbs(path)
             body == Join(CleanSegs(Split(path, "/"), <<>>, rooted), "/")
             r == IF rooted THEN Slash \o body ELSE body
         IN  IF r = Empty THEN Dot ELSE r

\* filepath.Abs: an absolute path is cleaned, a relative one is joined to the
\* working directory (Join cleans its result).
Abs(path) == Clean(IF IsAbs(path) THEN path ELSE cwd \o Slash \o path)

RECURSIVE StripSlashes(_)
StripSlashes(path) ==
    IF path # Empty /\ path[Len(path)] = "/"
    THEN StripSlashes(SubSeq(path, 1, Len(path) - 1))
    ELSE path

\* the position of the last "/" of s, 0 when there is none
LastSlash(s) ==
    IF Contains(s, "/")
    THEN CHOOSE i \in 1..Len(s) : s[i] = "/" /\ \A j \in (i + 1)..Len(s) : s[j] # "/"
    ELSE 0

Base(path) ==
    IF path = Empty THEN Dot
    ELSE LET p == StripSlashes(path)
         IN  IF p = Empty THEN Slash
             ELSE SubSeq(p, LastSlash(p) + 1, Len(p))

Dir(path) ==
    LET i == LastSlash(path)
        d == Clean(SubSeq(path, 1, i))
    IN  d

\* filepath.Match for patterns over literals, "*" and "?": "*" matches any
\* run of non-separator characters, "?" one non-separator character, and the
\* pattern has to match the whole name.  (Bracket classes and escapes do not
\* occur in the patterns of this model.)
RECURSIVE Match(_, _)
Match(pattern, name) ==
    IF pattern = Empty THEN name = Empty
    ELSE LET c == Head(pattern)
             rest == Tail(pattern)
         IN  IF c = "*"
             THEN \E k \in 0..Len(name) :
                     /\ \A i \in 1..k : name[i] # "/"
                     /\ Match(rest, SubSeq(name, k + 1, Len(name)))
             ELSE IF c = "?"
                  THEN name # Empty /\ name[1] # "/" /\ Match(rest, Tail(name))
                  ELSE name # Empty /\ name[1] = c /\ Match(rest, Tail(name))

(***************************************************************************)
(* ignore.go                                                               *)
(***************************************************************************)
defaultBlockedPatterns == <<
    <<".","e","n","v">>,
    <<".","e","n","v",".","*">>,
    <<"*",".","p","e","m">>,
    <<"*",".","k","e","y">>,
    <<"*",".","p","1","2">>,
    <<"*",".","p","f","x">>,
    <<"*",".","s","e","c","r","e","t">>,
    <<"*","c","r","e","d","e","n","t","i","a","l","s","*">>,
    <<"*","s","e","c","r","e","t","*">>,
    <<".","a","w","s","/","c","r","e","d","e","n","t","i","a","l","s">>,
    <<".","s","s","h","/","*">>,
    <<"i","d","_","r","s","a">>,
    <<"i","d","_","e","d","2","5","5","1","9">>,
    <<"*",".","k","e","y","s","t","o","r","e">>,
    <<".","n","e","t","r","c">>,
    <<".","n","p","m","r","c">>,
    <<".","p","y","p","i","r","c">> >>

PatternBlocks(pattern, path, base) ==
    \/ Match(pattern, path)
    \/ Match(pattern, base)
    \/ IF Contains(pattern, "*")
       THEN Match(pattern, base)
       ELSE base = pattern \/ HasSuffix(path, Slash \o pattern)

IsPathBlocked(p) ==
    LET path == Clean(p)
        base == Base(path)
    IN  \E i \in 1..Len(blockedPatterns) : PatternBlocks(blockedPatterns[i], path, base)

(***************************************************************************)
(* tools.go: validatePath                                                  *)
(***************************************************************************)
validatePath(path) ==
    LET clean == Clean(path)
    IN  IF HasPrefix(clean, DotDot) \/ IsAbs(clean)
        THEN IF ~HasPrefix(Abs(clean), Abs(Dot))
             THEN [out |-> Empty, err |-> <<"path traversal not allowed: ">> \o path]
             ELSE [out |-> clean, err |-> Nil]
        ELSE [out |-> clean, err |-> Nil]

(***************************************************************************)
(* tools.go: argument access.  The raw argument JSON of a tool call is     *)
(* modelled by what json.Unmarshal makes of it: either it is malformed, or *)
(* it denotes an object, a map from keys to typed JSON values.             *)
(***************************************************************************)
JStr(s) == [t |-> "string", s |-> s, n |-> 0, b |-> FALSE]
JNum(n) == [t |-> "number", s |-> Empty, n |-> n, b |-> FALSE]
JBool(b) == [t |-> "bool", s |-> Empty, n |-> 0, b |-> b]

Malformed == [wellformed |-> FALSE, obj |-> <<>>]
Obj(o) == [wellformed |-> TRUE, obj |-> o]

Has(args, key, type) == key \in DOMAIN args /\ args[key].t = type

getString(args, key, defaultVal) ==
    IF Has(args, key, "string") /\ args[key].s # Empty THEN args[key].s ELSE defaultVal

getInt(args, key, defaultVal) ==
    IF Has(args, key, "number") THEN args[key].n ELSE defaultVal

getBool(args, key, defaultVal) ==
    IF Has(args, key, "bool") THEN args[key].b ELSE defaultVal

(***************************************************************************)
(* tools.go: runCommand.  An external process is the environment: what it  *)
(* does is given by an outcome record                                      *)
(*   [timedOut, exitErr, output, long]                                     *)
(* output being its combined output and long telling that the output is    *)
(* longer than maxLen (output then stands for its first maxLen bytes).     *)
(***************************************************************************)
Outcome(timedOut, exitErr, output, long) ==
    [timedOut |-> timedOut, exitErr |-> exitErr, output |-> output, long |-> long]

\* runCommand looking at the output before the deadline
runCommand_OutputFirst(o) ==
    LET r == IF o.long THEN o.output \o <<"\n... (output truncated)">> ELSE o.output
    IN  IF o.exitErr \/ o.timedOut
        THEN IF r # Empty THEN [out |-> r, err |-> Nil]
             ELSE IF o.timedOut THEN [out |-> Empty, err |-> <<"command timed out">>]
             ELSE [out |-> Empty, err |-> <<"exit status 1">>]
        ELSE [out |-> r, err |-> Nil]

runCommand(o) ==
    LET r == IF o.long THEN o.output \o <<"\n... (output truncated)">> ELSE o.output
    IN  IF o.exitErr \/ o.timedOut
        THEN IF o.timedOut THEN [out |-> Empty, err |-> <<"command timed out">>]
             ELSE IF r # Empty THEN [out |-> r, err |-> Nil]
             ELSE [out |-> Empty, err |-> <<"exit status 1">>]
        ELSE [out |-> r, err |-> Nil]

(***************************************************************************)
(* tools.go: formatMarkdown                                                *)
(***************************************************************************)
\* strings.ReplaceAll(content, "\r\n", "\n")
RECURSIVE ReplaceCRLF(_)
ReplaceCRLF(s) ==
    IF s = Empty THEN Empty
    ELSE IF Len(s) >= 2 /\ s[1] = "\r" /\ s[2] = "\n"
         THEN <<"\n">> \o ReplaceCRLF(SubSeq(s, 3, Len(s)))
         ELSE <<s[1]>> \o ReplaceCRLF(Tail(s))

\* strings.ReplaceAll(content, "\r", "\n")
ReplaceCR(s) == [i \in 1..Len(s) |-> IF s[i] = "\r" THEN "\n" ELSE s[i]]

\* strings.TrimRight(s, cutset)
RECURSIVE TrimRight(_, _)
TrimRight(s, cutset) ==
    IF s # Empty /\ s[Len(s)] \in cutset
    THEN TrimRight(SubSeq(s, 1, Len(s) - 1), cutset)
    ELSE s

RECURSIVE TrimLeft(_, _)
TrimLeft(s, cutset) ==
    IF s # Empty /\ s[1] \in cutset THEN TrimLeft(Tail(s), cutset) ELSE s

WhiteSpace == {" ", "\t", "\n", "\r"}

TrimSpace(s) == TrimLeft(TrimRight(s, WhiteSpace), WhiteSpace)

\* the loop over the lines: formatted is the list built so far
RECURSIVE FormatLines(_, _, _)
FormatLines(lines, formatted, blankLineCount) ==
    IF lines = <<>> THEN formatted
    ELSE LET trimmed == TrimRight(Head(lines), {" ", "\t"})
         IN  IF trimmed = Empty
             THEN IF blankLineCount + 1 <= 2
                  THEN FormatLines(Tail(lines), Append(formatted, Empty), blankLineCount + 1)
                  ELSE FormatLines(Tail(lines), formatted, blankLineCount + 1)
             ELSE FormatLines(Tail(lines), Append(formatted, trimmed), 0)

\* formatMarkdown without the final strings.TrimRight(result, "\n")
formatMarkdown_NoFinalTrim(content) ==
    LET normal == ReplaceCR(ReplaceCRLF(content))
        formatted == FormatLines(Split(normal, "\n"), <<>>, 0)
    IN  Join(formatted, "\n") \o <<"\n">>

formatMarkdown(content) ==
    LET normal == ReplaceCR(ReplaceCRLF(content))
        formatted == FormatLines(Split(normal, "\n"), <<>>, 0)
    IN  TrimRight(Join(formatted, "\n"), {"\n"}) \o <<"\n">>

(***************************************************************************)
(* ignore.go: FilterBlockedPaths.                                          *)
(***************************************************************************)
NotBlocked(p) == ~IsPathBlocked(p)

\* FilterBlockedPaths keeping the blocked entries instead
FilterBlockedPaths_Blocked(paths) == SelectSeq(paths, IsPathBlocked)

\* FilterBlockedPaths: the entries that are not blocked, appended in turn
FilterBlockedPaths(paths) == SelectSeq(paths, NotBlocked)

(***************************************************************************)
(* ignore.go: LoadIgnorePatterns and FilterBlockedPaths.  The ignore file  *)
(* is [opens, lines]: whether os.Open succeeds, and its lines, each        *)
(* [text, long], long telling that the line exceeds the token size of      *)
(* bufio.Scanner (bufio.MaxScanTokenSize).                                 *)
(***************************************************************************)
\* the lines scanner.Scan delivers: scanning stops for good at a token that
\* does not fit the buffer (Scan returns false; the code does not look at
\* scanner.Err)
RECURSIVE Scan(_)
Scan(lines) ==
    IF lines = <<>> THEN <<>>
    ELSE IF Head(lines).long THEN <<>>
    ELSE <<Head(lines).text>> \o Scan(Tail(lines))

\* the loop body: the trimmed line is kept unless it is empty or a comment
KeepLine(line) == ~(line = Empty \/ HasPrefix(line, <<"#">>))

\* LoadIgnorePatterns: the value of blockedPatterns it leaves
LoadIgnorePatterns(patterns, file) ==
    IF ~file.opens THEN patterns \o defaultBlockedPatterns
    ELSE patterns \o defaultBlockedPatterns
         \o SelectSeq([i \in 1..Len(Scan(file.lines)) |-> TrimSpace(Scan(file.lines)[i])],
                      KeepLine)

(***************************************************************************)
(* The file system as os.Stat, os.MkdirAll and os.WriteFile see it:        *)
(* F.files maps the absolute path of each regular file to its content,     *)
(* F.dirs is the set of absolute paths of the directories.                 *)
(***************************************************************************)
FS(files, d) == [files |-> files, dirs |-> d]

RECURSIVE AncestorsOrSelf(_)
AncestorsOrSelf(p) == IF p = Slash THEN {Slash} ELSE {p} \cup AncestorsOrSelf(Dir(p))

\* os.Stat(p) returns a nil error
Exists(F, p) == Abs(p) \in DOMAIN F.files \/ Abs(p) \in F.dirs

\* os.MkdirAll(dir, 0755): nothing to do when dir is a directory; an error,
\* and nothing created, when a path element is a regular file or the first
\* mkdir is refused (mkdirOk = FALSE); else every missing element is created.
MkdirAll(F, dir, mkdirOk) ==
    LET d == Abs(dir)
    IN  IF d \in F.dirs THEN [ok |-> TRUE, F |-> F]
        ELSE IF (\E a \in AncestorsOrSelf(d) : a \in DOMAIN F.files) \/ ~mkdirOk
             THEN [ok |-> FALSE, F |-> F]
             ELSE [ok |-> TRUE, F |-> FS(F.files, F.dirs \cup AncestorsOrSelf(d))]

\* os.WriteFile(p, data, 0644): open with O_CREATE|O_TRUNC, write, close.
\* how = "ok", "open" (the open fails: nothing changes) or "io" (the write
\* fails after the file was created: a file without the data is left).
WriteFile(F, p, data, how) ==
    IF how = "open" \/ Abs(p) \in F.dirs \/ Dir(Abs(p)) \notin F.dirs
    THEN [ok |-> FALSE, F |-> F]
    ELSE IF how = "io"
         THEN [ok |-> FALSE, F |-> FS((Abs(p) :> Empty) @@ F.files, F.dirs)]
         ELSE [ok |-> TRUE, F |-> FS((Abs(p) :> data) @@ F.files, F.dirs)]

(***************************************************************************)
(* tools.go: the seven tools.  Each returns                                *)
(*   [out, err, F, nproc]                                                  *)
(* the Go results (string, error), the file system it leaves and the       *)
(* number of external processes it started.  env gives the outcomes of the *)
(* processes (p1, p2) and of the system calls (mkdirOk, write).            *)
(***************************************************************************)
R(out, err, F, nproc) == [out |-> out, err |-> err, F |-> F, nproc |-> nproc]

Cmd(name, argv) == [name |-> name, argv |-> argv]

\* grep as executeGrep runs it (GNU grep -n): the file named last on the
\* command line is searched.  A regular file is printed without its name,
\* "<line>:<text>"; a directory is searched only with -r, and then each
\* matching file below it is printed as "<name>:<line>:<text>", the name
\* being the directory argument joined to the file's path below it.
\* matched is the set of files whose (single) line the pattern matches.
GrepFileName(dirArg, d, file) ==
    IF dirArg[Len(dirArg)] = "/"
    THEN dirArg \o SubSeq(file, Len(d) + 2, Len(file))
    ELSE dirArg \o Slash \o SubSeq(file, Len(d) + 2, Len(file))

\* the files below the directory d (an absolute path)
Below(F, d) == {f \in DOMAIN F.files : HasPrefix(f, d \o Slash)}

\* the files of a set in the order the utilities print them
RECURSIVE InOrder(_)
InOrder(files) ==
    IF files = {} THEN <<>>
    ELSE LET f == CHOOSE x \in files : \A y \in files : Len(x) <= Len(y)
         IN  <<f>> \o InOrder(files \ {f})

\* each line followed by a newline
RECURSIVE Unlines(_)
Unlines(lines) ==
    IF lines = <<>> THEN Empty ELSE Head(lines) \o <<"\n">> \o Unlines(Tail(lines))

\* grep on the operand path, abs being its absolute path
GrepOn(path, abs, recursive, matched, F) ==
    IF abs \in DOMAIN F.files
    THEN IF abs \in matched
         THEN Outcome(FALSE, FALSE, <<"1", ":">> \o F.files[abs] \o <<"\n">>, FALSE)
         ELSE Outcome(FALSE, TRUE, Empty, FALSE)
    ELSE IF abs \in F.dirs
    THEN IF recursive
         THEN Outcome(FALSE, Below(F, abs) \cap matched = {},
                      Unlines([i \in 1..Cardinality(Below(F, abs) \cap matched) |->
                                  GrepFileName(path, abs, InOrder(Below(F, abs) \cap matched)[i])
                                  \o <<":", "1", ":">>
                                  \o F.files[InOrder(Below(F, abs) \cap matched)[i]]]),
                      FALSE)
         ELSE Outcome(FALSE, TRUE, <<"grep: ">> \o path \o <<": Is a directory", "\n">>, FALSE)
    ELSE Outcome(FALSE, TRUE,
                 <<"grep: ">> \o path \o <<": No such file or directory", "\n">>, FALSE)

GrepProcess(cmd, matched, F) ==
    GrepOn(cmd.argv[Len(cmd.argv)], Abs(cmd.argv[Len(cmd.argv)]),
           \E i \in 1..Len(cmd.argv) : cmd.argv[i] = <<"-r">>, matched, F)

\* find as executeFind runs it: "find <path> -name <pattern> -type f" prints
\* the name of each regular file at or below path whose base name matches.
FindOn(path, abs, matched, F) ==
    IF abs \in DOMAIN F.files
    THEN IF abs \in matched
         THEN Outcome(FALSE, FALSE, path \o <<"\n">>, FALSE)
         ELSE Outcome(FALSE, FALSE, Empty, FALSE)
    ELSE IF abs \in F.dirs
    THEN Outcome(FALSE, FALSE,
                 Unlines([i \in 1..Cardinality(Below(F, abs) \cap matched) |->
                             GrepFileName(path, abs, InOrder(Below(F, abs) \cap matched)[i])]),
                 FALSE)
    ELSE Outcome(FALSE, TRUE,
                 <<"find: ">> \o path \o <<": No such file or directory", "\n">>, FALSE)

FindProcess(cmd, matched, F) == FindOn(cmd.argv[1], Abs(cmd.argv[1]), matched, F)

\* The processes of a tool call.  env.mode = "given": the environment states
\* the outcome of the k-th process (env.p[k]); env.mode = "fs": grep and find
\* act on the file system F, env.matched being the files their pattern
\* matches.
Run(o, F, nproc) == R(runCommand(o).out, runCommand(o).err, F, nproc)

executeLs(args, env, F) == Run(env.p[1], F, 1)

\* executeCat without the ignore-list check
executeCat_Unchecked(args, env, F) ==
    IF getString(args, "path", Empty) = Empty THEN R(Empty, <<"path is required">>, F, 0)
    ELSE Run(env.p[1], F, 1)

executeCat(args, env, F) ==
    IF getString(args, "path", Empty) = Empty THEN R(Empty, <<"path is required">>, F, 0)
    ELSE IF IsPathBlocked(getString(args, "path", Empty))
         THEN R(Empty, <<"access denied: ">> \o getString(args, "path", Empty)
                       \o <<" is in ignore list">>, F, 0)
         ELSE Run(env.p[1], F, 1)

executeHead(args, env, F) ==
    IF getString(args, "path", Empty) = Empty THEN R(Empty, <<"path is required">>, F, 0)
    ELSE IF IsPathBlocked(getString(args, "path", Empty))
         THEN R(Empty, <<"access denied: ">> \o getString(args, "path", Empty)
                       \o <<" is in ignore list">>, F, 0)
         ELSE Run(env.p[1], F, 1)

\* the filter of executeGrep: a line is dropped when the text before its
\* first ":" (at an index > 0) is a blocked path
GrepKeep(line) ==
    ~(Index(line, ":") > 1 /\ IsPathBlocked(SubSeq(line, 1, Index(line, ":") - 1)))

\* executeGrep after runCommand returned r: the filter over the lines
GrepFiltered(r, F) ==
    IF r.err # Nil THEN R(r.out, r.err, F, 1)
    ELSE R(Join(SelectSeq(Split(r.out, "\n"), GrepKeep), "\n"), Nil, F, 1)

executeGrep(args, env, F) ==
    IF getString(args, "pattern", Empty) = Empty
    THEN R(Empty, <<"pattern is required">>, F, 0)
    ELSE GrepFiltered(
             runCommand(IF env.mode = "fs"
                        THEN GrepProcess(
                                 Cmd("grep",
                                     <<<<"-n">>, <<"--color=never">>>>
                                     \o (IF getBool(args, "recursive", TRUE)
                                         THEN <<<<"-r">>>> ELSE <<>>)
                                     \o <<<<"--">>, getString(args, "pattern", Empty),
                                          getString(args, "path", Dot)>>),
                                 env.matched, F)
                        ELSE env.p[1]), F)

\* the filter of executeFind on a trimmed line
FindKeep(line) == ~(line = Empty \/ IsPathBlocked(line))

TrimEach(lines) == [i \in 1..Len(lines) |-> TrimSpace(lines[i])]

\* executeFind after runCommand returned r: the filter over the lines
FindFiltered(r, F) ==
    IF r.err # Nil THEN R(r.out, r.err, F, 1)
    ELSE R(Join(SelectSeq(TrimEach(Split(r.out, "\n")), FindKeep), "\n"), Nil, F, 1)

executeFind(args, env, F) ==
    IF getString(args, "pattern", Empty) = Empty
    THEN R(Empty, <<"pattern is required">>, F, 0)
    ELSE FindFiltered(
             runCommand(IF env.mode = "fs"
                        THEN FindProcess(
                                 Cmd("find", <<getString(args, "path", Dot), <<"-name">>,
                                               getString(args, "pattern", Empty),
                                               <<"-type">>, <<"f">>>>),
                                 env.matched, F)
                        ELSE env.p[1]), F)

executeTree(args, env, F) ==
    IF runCommand(env.p[1]).err # Nil
    THEN Run(env.p[2], F, 2)
    ELSE R(runCommand(env.p[1]).out, Nil, F, 1)

\* strings.ToLower on the letters
Lower == [A |-> "a", B |-> "b", C |-> "c", D |-> "d", E |-> "e", F |-> "f", G |-> "g",
          H |-> "h", I |-> "i", J |-> "j", K |-> "k", L |-> "l", M |-> "m", N |-> "n",
          O |-> "o", P |-> "p", Q |-> "q", R |-> "r", S |-> "s", T |-> "t", U |-> "u",
          V |-> "v", W |-> "w", X |-> "x", Y |-> "y", Z |-> "z"]

ToLower(s) == [i \in 1..Len(s) |-> IF s[i] \in DOMAIN Lower THEN Lower[s[i]] ELSE s[i]]

\* WriteMade with the result naming the cleaned path
WriteMade_CleanName(path, clean, formattedContent, made, how) ==
    IF ~made.ok THEN R(Empty, <<"failed to create directory: mkdir">>, made.F, 0)
    ELSE IF ~WriteFile(made.F, clean, formattedContent, how).ok
         THEN R(Empty, <<"failed to write file: open">>,
                WriteFile(made.F, clean, formattedContent, how).F, 0)
         ELSE R(<<"Successfully created markdown file: ">> \o clean, Nil,
                WriteFile(made.F, clean, formattedContent, how).F, 0)

\* executeWriteMarkdown after os.MkdirAll (made): os.WriteFile and the result
WriteMade(path, clean, formattedContent, made, how) ==
    IF ~made.ok THEN R(Empty, <<"failed to create directory: mkdir">>, made.F, 0)
    ELSE IF ~WriteFile(made.F, clean, formattedContent, how).ok
         THEN R(Empty, <<"failed to write file: open">>,
                WriteFile(made.F, clean, formattedContent, how).F, 0)
         ELSE R(<<"Successfully created markdown file: ">> \o path, Nil,
                WriteFile(made.F, clean, formattedContent, how).F, 0)

\* WriteValidated without the os.Stat check
WriteValidated_NoStat(path, formattedContent, v, env, F) ==
    IF v.err # Nil THEN R(Empty, v.err, F, 0)
    ELSE WriteMade(path, v.out, formattedContent, MkdirAll(F, Dir(v.out), env.mkdirOk),
                   env.write)

\* executeWriteMarkdown after validatePath (v): os.Stat and os.MkdirAll
WriteValidated(path, formattedContent, v, env, F) ==
    IF v.err # Nil THEN R(Empty, v.err, F, 0)
    ELSE IF Exists(F, v.out) THEN R(Empty, <<"file already exists: ">> \o path, F, 0)
    ELSE WriteMade(path, v.out, formattedContent, MkdirAll(F, Dir(v.out), env.mkdirOk),
                   env.write)

\* executeWriteMarkdown asking for the content before it looks at the extension
executeWriteMarkdown_ContentFirst(args, env, F) ==
    IF getString(args, "path", Empty) = Empty THEN R(Empty, <<"path is required">>, F, 0)
    ELSE IF getString(args, "content", Empty) = Empty
    THEN R(Empty, <<"content is required">>, F, 0)
    ELSE IF ~HasSuffix(ToLower(getString(args, "path", Empty)), <<".", "m", "d">>)
    THEN R(Empty, <<"only markdown files (.md) can be created">>, F, 0)
    ELSE WriteValidated(getString(args, "path", Empty),
                        formatMarkdown(getString(args, "content", Empty)),
                        validatePath(getString(args, "path", Empty)), env, F)

executeWriteMarkdown(args, env, F) ==
    IF getString(args, "path", Empty) = Empty THEN R(Empty, <<"path is required">>, F, 0)
    ELSE IF ~HasSuffix(ToLower(getString(args, "path", Empty)), <<".", "m", "d">>)
    THEN R(Empty, <<"only markdown files (.md) can be created">>, F, 0)
    ELSE IF getString(args, "content", Empty) = Empty
    THEN R(Empty, <<"content is required">>, F, 0)
    ELSE WriteValidated(getString(args, "path", Empty),
                        formatMarkdown(getString(args, "content", Empty)),
                        validatePath(getString(args, "path", Empty)), env, F)

(***************************************************************************)
(* tools.go: ToolDefinitions                                               *)
(***************************************************************************)
Definition(name, description, properties, required) ==
    [type |-> "function",
     function |-> [name |-> name, description |-> description,
                   parameters |-> [type |-> "object", properties |-> properties,
                                   required |-> required]]]

\* ToolDefinitions without the declaration of tree
ToolDefinitions_NoTree == <<
    Definition("ls", <<"List directory contents. ...">>, {"path"}, <<>>),
    Definition("cat", <<"Read and display the entire contents of a file.">>, {"path"},
               <<"path">>),
    Definition("head", <<"Read the first N lines of a file. ...">>, {"path", "lines"},
               <<"path">>),
    Definition("grep", <<"Search for a pattern in files. ...">>,
               {"pattern", "path", "recursive"}, <<"pattern">>),
    Definition("find", <<"Find files by name pattern. ...">>, {"pattern", "path"},
               <<"pattern">>),
    Definition("write_markdown", <<"Create a new markdown (.md) file ...">>,
               {"path", "content"}, <<"path", "content">>) >>

ToolDefinitions == <<
    Definition("ls", <<"List directory contents. ...">>, {"path"}, <<>>),
    Definition("cat", <<"Read and display the entire contents of a file.">>, {"path"},
               <<"path">>),
    Definition("head", <<"Read the first N lines of a file. ...">>, {"path", "lines"},
               <<"path">>),
    Definition("grep", <<"Search for a pattern in files. ...">>,
               {"pattern", "path", "recursive"}, <<"pattern">>),
    Definition("find", <<"Find files by name pattern. ...">>, {"pattern", "path"},
               <<"pattern">>),
    Definition("tree", <<"Show directory structure as a tree. ...">>, {"path", "depth"},
               <<>>),
    Definition("write_markdown", <<"Create a new markdown (.md) file ...">>,
               {"path", "content"}, <<"path", "content">>) >>

\* the case labels of the switch of ExecuteTool, in their order
DispatchCases == <<"ls", "cat", "head", "grep", "find", "tree", "write_markdown">>

(***************************************************************************)
(* tools.go: ExecuteTool                                                   *)
(***************************************************************************)
\* ExecuteTool dispatching without validating the path argument
ExecuteTool_NoValidate(name, argsJSON, env, F) ==
    IF ~argsJSON.wellformed
    THEN R(Empty, <<"invalid arguments: unexpected end of JSON input">>, F, 0)
    ELSE CASE name = "ls" -> executeLs(argsJSON.obj, env, F)
           [] name = "cat" -> executeCat(argsJSON.obj, env, F)
           [] name = "head" -> executeHead(argsJSON.obj, env, F)
           [] name = "grep" -> executeGrep(argsJSON.obj, env, F)
           [] name = "find" -> executeFind(argsJSON.obj, env, F)
           [] name = "tree" -> executeTree(argsJSON.obj, env, F)
           [] name = "write_markdown" -> executeWriteMarkdown(argsJSON.obj, env, F)
           [] OTHER -> R(Empty, <<"unknown tool: ", name>>, F, 0)

\* ExecuteTool running ls for a name it does not know
ExecuteTool_DefaultLs(name, argsJSON, env, F) ==
    IF ~argsJSON.wellformed
    THEN R(Empty, <<"invalid arguments: unexpected end of JSON input">>, F, 0)
    ELSE IF Has(argsJSON.obj, "path", "string")
            /\ validatePath(argsJSON.obj["path"].s).err # Nil
         THEN R(Empty, validatePath(argsJSON.obj["path"].s).err, F, 0)
         ELSE CASE name = "cat" -> executeCat(argsJSON.obj, env, F)
                [] name = "head" -> executeHead(argsJSON.obj, env, F)
                [] name = "grep" -> executeGrep(argsJSON.obj, env, F)
                [] name = "find" -> executeFind(argsJSON.obj, env, F)
                [] name = "tree" -> executeTree(argsJSON.obj, env, F)
                [] name = "write_markdown" -> executeWriteMarkdown(argsJSON.obj, env, F)
                [] OTHER -> executeLs(argsJSON.obj, env, F)

ExecuteTool(name, argsJSON, env, F) ==
    IF ~argsJSON.wellformed
    THEN R(Empty, <<"invalid arguments: unexpected end of JSON input">>, F, 0)
    ELSE IF Has(argsJSON.obj, "path", "string")
            /\ validatePath(argsJSON.obj["path"].s).err # Nil
         THEN R(Empty, validatePath(argsJSON.obj["path"].s).err, F, 0)
         ELSE CASE name = "ls" -> executeLs(argsJSON.obj, env, F)
                [] name = "cat" -> executeCat(argsJSON.obj, env, F)
                [] name = "head" -> executeHead(argsJSON.obj, env, F)
                [] name = "grep" -> executeGrep(argsJSON.obj, env, F)
                [] name = "find" -> executeFind(argsJSON.obj, env, F)
                [] name = "tree" -> executeTree(argsJSON.obj, env, F)
                [] name = "write_markdown" -> executeWriteMarkdown(argsJSON.obj, env, F)
                [] OTHER -> R(Empty, <<"unknown tool: ", name>>, F, 0)

(***************************************************************************)
(* Initial values shared by the specifications.                            *)
(***************************************************************************)
\* the working directories of the model: one or two levels below the root
Cwds == {<<"/", "a">>, <<"/", "b", "/", "a">>}

\* the state of the variables a specification does not use
SessionOff ==
    /\ messages = <<>> /\ pc = "off" /\ idx = 0 /\ assistantMsg = <<>> /\ result = Empty
    /\ toolErr = Nil
    /\ ret = [state |-> "none", answer |-> Empty, err |-> Nil] /\ inflight = 0
    /\ hasCb = FALSE /\ pre = <<>> /\ rounds = <<>> /\ log = <<>>

HarnessOff == arg = Empty /\ res = Empty /\ phase = "off" /\ ncalls = 0 /\ written = <<>>

\* the file system of a fresh working directory: the directory and its
\* ancestors, no file
EmptyDir == fs = <<>> /\ dirs = AncestorsOrSelf(cwd)

(***************************************************************************)
(* SpecPath: one call of validatePath on an arbitrary path.                *)
(***************************************************************************)
PathChars == {"/", ".", "a", "b"}

PathStrings == UNION {[1..n -> PathChars] : n \in 0..MaxPathLen}

InitPath ==
    /\ SessionOff
    /\ SpinnerOff
    /\ blockedPatterns = defaultBlockedPatterns
    /\ cwd \in Cwds
    /\ EmptyDir
    /\ arg \in PathStrings
    /\ res = [out |-> Empty, err |-> Nil]
    /\ phase = "in"
    /\ ncalls = 0
    /\ written = <<>>

CallValidatePath ==
    /\ phase = "in"
    /\ res' = validatePath(arg)
    /\ phase' = "out"
    /\ UNCHANGED <<spinnerVars, arg, ncalls, written, sessionVars, envVars>>

NextPath == CallValidatePath

SpecPath == InitPath /\ [][NextPath]_vars

\* the path elements of an absolute clean path
Elements(p) == SelectSeq(Split(p, "/"), LAMBDA e : e # Empty)

\* p resolves to the working directory or to a descendant of it
ResolvesInside(p) == HasPrefix(Elements(Abs(p)), Elements(cwd))

\* C1: validatePath(p) fails with a traversal error whenever p resolves
\* outside the working directory, and succeeds with the lexically cleaned
\* path whenever p resolves to the working directory or below it.
C1_ValidatePathContract ==
    phase = "out" =>
        IF ResolvesInside(arg)
        THEN res.err = Nil /\ res.out = Clean(arg)
        ELSE res.err = <<"path traversal not allowed: ">> \o arg

(***************************************************************************)
(* SpecSearch: one grep or find call through ExecuteTool, on a working     *)
(* directory holding any of a few files, for every path argument and       *)
(* recursive flag.  Each file holds one line, "K=" followed by its         *)
(* absolute path, so that a line of the result tells the file it is from.  *)
(***************************************************************************)
\* paths, relative to the working directory, of the files that may exist
SearchFiles == {<<".", "e", "n", "v">>, <<"m">>, <<"d", "/", ".", "e", "n", "v">>}

\* the path arguments of the calls
SearchPaths == {Dot, <<".", "e", "n", "v">>, <<"m">>, <<"d">>,
                <<"d", "/", ".", "e", "n", "v">>, <<".", "/", ".", "e", "n", "v">>, <<"x">>}

FileContent(f) == <<"K", "=">> \o f

\* the file system holding the files rel (relative paths) and their directories
FilesAt(rel) ==
    LET abs == {Abs(r) : r \in rel}
    IN  FS([f \in abs |-> FileContent(f)],
           AncestorsOrSelf(cwd) \cup UNION {AncestorsOrSelf(Dir(f)) : f \in abs})

SearchArgs ==
    {Obj(o) : o \in
        {[pattern |-> JStr(<<"K">>)], [recursive |-> JBool(FALSE)]}
        \cup {[pattern |-> JStr(<<"K">>), path |-> JStr(p)] : p \in SearchPaths}
        \cup {[pattern |-> JStr(<<"K">>), path |-> JStr(p), recursive |-> JBool(b)] :
                 p \in SearchPaths, b \in BOOLEAN}}

InitSearch ==
    /\ SessionOff
    /\ SpinnerOff
    /\ blockedPatterns = defaultBlockedPatterns
    /\ cwd \in Cwds
    /\ \E rel \in SUBSET SearchFiles :
          /\ fs = FilesAt(rel).files
          /\ dirs = FilesAt(rel).dirs
          /\ arg \in [tool : {"grep", "find"}, args : SearchArgs,
                      matched : SUBSET {Abs(r) : r \in rel}]
    /\ res = R(Empty, Nil, FS(fs, dirs), 0)
    /\ phase = "in"
    /\ ncalls = 0
    /\ written = <<>>

SearchEnv == [mode |-> "fs", matched |-> arg.matched, p |-> <<>>, mkdirOk |-> TRUE,
              write |-> "ok"]

CallSearch ==
    /\ phase = "in"
    /\ res' = ExecuteTool(arg.tool, arg.args, SearchEnv, FS(fs, dirs))
    /\ phase' = "out"
    /\ UNCHANGED <<spinnerVars, arg, ncalls, written, sessionVars, envVars>>

NextSearch == CallSearch

SpecSearch == InitSearch /\ [][NextSearch]_vars

\* the path of file f relative to the working directory
Rel(f) == SubSeq(f, Len(cwd) + 2, Len(f))

\* line of a grep or find result is from file f: a grep line ends with the
\* line of f, a find line names f
LineFrom(line, f) ==
    IF arg.tool = "grep" THEN HasSuffix(line, FileContent(f)) ELSE Abs(line) = f

\* what the process of the call printed, line by line
SearchRaw ==
    LET o == arg.args.obj
        path == getString(o, "path", Dot)
        grepArgs == <<<<"-n">>>> \o (IF getBool(o, "recursive", TRUE) THEN <<<<"-r">>>> ELSE <<>>)
                    \o <<getString(o, "pattern", Empty), path>>
    IN  Split(IF arg.tool = "grep"
              THEN GrepProcess(Cmd("grep", grepArgs), arg.matched, FS(fs, dirs)).output
              ELSE FindProcess(Cmd("find", <<path>>), arg.matched, FS(fs, dirs)).output, "\n")

\* a is b with some elements left out
RECURSIVE IsSubSeq(_, _)
IsSubSeq(a, b) ==
    IF a = <<>> THEN TRUE
    ELSE IF b = <<>> THEN FALSE
    ELSE IF Head(a) = Head(b) THEN IsSubSeq(Tail(a), Tail(b))
    ELSE IsSubSeq(a, Tail(b))

\* C2: the result of a grep or find call holds no line from a file whose
\* path IsPathBlocked reports as blocked, and its lines are lines of the
\* process output in their original order.
C2_SearchHidesBlockedFiles ==
    (phase = "out" /\ res.err = Nil) =>
        /\ \A f \in DOMAIN fs :
              IsPathBlocked(Rel(f)) =>
                 \A i \in 1..Len(Split(res.out, "\n")) : ~LineFrom(Split(res.out, "\n")[i], f)
        /\ IsSubSeq(Split(res.out, "\n"), [i \in 1..Len(SearchRaw) |-> TrimSpace(SearchRaw[i])])

(***************************************************************************)
(* SpecWrite: a sequence of write_markdown calls through ExecuteTool, with *)
(* any arguments and any outcome of the system calls, on a working         *)
(* directory that may already hold a.md.                                   *)
(***************************************************************************)
AMd == <<"a", ".", "m", "d">>

WritePaths == {AMd, <<".", "/", "a", ".", "m", "d">>, <<"a", ".", "M", "D">>,
               <<"d", "/", "b", ".", "m", "d">>, <<"a", ".", "t", "x", "t">>,
               <<".", ".", "/", "x", ".", "m", "d">>}

WriteContents == {<<"x">>, <<"#", " ", "\r", "\n", "\n", "\n", "\n", "y">>}

WriteArgs ==
    {Malformed}
    \cup {Obj([path |-> JStr(p), content |-> JStr(c)]) : p \in WritePaths, c \in WriteContents}
    \cup {Obj([path |-> JStr(AMd)]), Obj([content |-> JStr(<<"x">>)])}
    \cup {Obj([path |-> JNum(1), content |-> JStr(<<"x">>)])}

WriteEnvs ==
    {[mode |-> "given", matched |-> {}, p |-> <<>>, mkdirOk |-> m, write |-> w] :
        <<m, w>> \in {<<TRUE, "ok">>, <<FALSE, "ok">>, <<TRUE, "open">>, <<TRUE, "io">>}}

InitWrite ==
    /\ SessionOff
    /\ SpinnerOff
    /\ blockedPatterns = defaultBlockedPatterns
    /\ cwd = <<"/", "a">>
    /\ dirs = AncestorsOrSelf(cwd)
    /\ fs \in {<<>>, [f \in {Abs(AMd)} |-> <<"o", "l", "d", "\n">>]}
    /\ arg = [args |-> Malformed, F |-> FS(fs, dirs)]
    /\ res = R(Empty, Nil, FS(fs, dirs), 0)
    /\ phase = "in"
    /\ ncalls = 0
    /\ written = <<>>

\* the file a write_markdown call is about, when its path argument names one
HasTarget(a) == a.wellformed /\ getString(a.obj, "path", Empty) # Empty

Target(a) == Abs(getString(a.obj, "path", Empty))

\* the contents written to target t, c added
Record(w, t, c) ==
    IF t \in DOMAIN w THEN [w EXCEPT ![t] = Append(@, c)] ELSE (t :> <<c>>) @@ w

CallWriteMarkdown ==
    /\ phase \in {"in", "out"}
    /\ ncalls < MaxToolCalls
    /\ \E a \in WriteArgs, env \in WriteEnvs :
       \E r \in {ExecuteTool("write_markdown", a, env, FS(fs, dirs))} :
              /\ arg' = [args |-> a, F |-> FS(fs, dirs)]
              /\ res' = r
              /\ fs' = r.F.files
              /\ dirs' = r.F.dirs
              /\ written' = IF r.err # Nil THEN written
                            ELSE Record(written, Target(a), formatMarkdown(a.obj["content"].s))
    /\ phase' = "out"
    /\ ncalls' = ncalls + 1
    /\ UNCHANGED <<spinnerVars, sessionVars, blockedPatterns, cwd>>

NextWrite == CallWriteMarkdown

SpecWrite == InitWrite /\ [][NextWrite]_vars

\* the checks executeWriteMarkdown makes before it looks at the target
PassesEarlierChecks(a) ==
    /\ HasTarget(a)
    /\ HasSuffix(ToLower(getString(a.obj, "path", Empty)), <<".", "m", "d">>)
    /\ getString(a.obj, "content", Empty) # Empty
    /\ validatePath(getString(a.obj, "path", Empty)).err = Nil

\* every file that existed before the last call is still there, unchanged
ExistingFilesUnchanged ==
    \A f \in DOMAIN arg.F.files : f \in DOMAIN fs /\ fs[f] = arg.F.files[f]

\* of the calls to one target at most one succeeded, and the file holds what
\* that call wrote
FirstWriteWins ==
    \A t \in DOMAIN written :
        Len(written[t]) <= 1 /\ t \in DOMAIN fs /\ fs[t] = written[t][1]

\* C4 as stated: a call whose target exists fails with 'already exists'
\* and changes no existing file; at most the first call to a path succeeds
\* and the file keeps its content.
C4_Original ==
    phase = "out" =>
        /\ ExistingFilesUnchanged
        /\ FirstWriteWins
        /\ (HasTarget(arg.args) /\ Exists(arg.F, Target(arg.args))) =>
              res.err = <<"file already exists: ">> \o getString(arg.args.obj, "path", Empty)

\* C4, amended: a call whose target exists fails, with 'already exists' when
\* it passes the earlier checks (.md extension, content, path validation),
\* and changes no existing file; at most the first call to a path succeeds
\* and the file keeps its content.
C4_NeverOverwrites ==
    phase = "out" =>
        /\ ExistingFilesUnchanged
        /\ FirstWriteWins
        /\ (HasTarget(arg.args) /\ Exists(arg.F, Target(arg.args))) =>
              /\ res.err # Nil
              /\ PassesEarlierChecks(arg.args) =>
                    res.err = <<"file already exists: ">> \o getString(arg.args.obj, "path", Empty)

\* a second call to a path whose first call succeeded has been refused
C4_Witness ==
    /\ phase = "out"
    /\ PassesEarlierChecks(arg.args)
    /\ Target(arg.args) \in DOMAIN written
    /\ res.err = <<"file already exists: ">> \o getString(arg.args.obj, "path", Empty)

\* ---- C19 ----
\* C19: a write_markdown call that fails, on whichever error path, leaves
\* the file system exactly as it was before the call: no file and no
\* directory created or modified.
C19_FailedWriteChangesNothing ==
    (phase = "out" /\ res.err # Nil) => (fs = arg.F.files /\ dirs = arg.F.dirs)

\* ---- C20 ----
\* the call passed every check of executeWriteMarkdown: path, extension,
\* content, path validation, and no file or directory at the target
PassesEveryCheck(a, F) == PassesEarlierChecks(a) /\ ~Exists(F, Target(a))

\* the effect of a successful call: the missing parent directories exist,
\* the target is a new file holding formatMarkdown(content), nothing else
\* changed, and the result names the path as it was supplied
Created(a, F) ==
    /\ dirs = F.dirs \cup AncestorsOrSelf(Dir(Target(a)))
    /\ Target(a) \notin DOMAIN F.files
    /\ fs = (Target(a) :> formatMarkdown(getString(a.obj, "content", Empty))) @@ F.files
    /\ res.out = <<"Successfully created markdown file: ">> \o getString(a.obj, "path", Empty)

C21_ParentMustExist ==
    (phase = "out" /\ HasTarget(arg.args) /\ Dir(Target(arg.args)) \notin arg.F.dirs) =>
        (res.err # Nil /\ fs = arg.F.files /\ dirs = arg.F.dirs)


(***************************************************************************)
(* client.go: the conversation session.                                    *)
(***************************************************************************)
Message(role, content, toolCalls, toolCallID, reasoning) ==
    [role |-> role, content |-> content, tool_calls |-> toolCalls,
     tool_call_id |-> toolCallID, reasoning |-> reasoning]

ToolCall(id, name, arguments) ==
    [id |-> id, type |-> "function", function |-> [name |-> name, arguments |-> arguments]]

SystemMessage ==
    Message("system",
            <<"You are a helpful assistant that answers questions about codebases. ...">>,
            <<>>, Empty, Empty)

\* NewClient: the history holds the system message
NewClient == messages = <<SystemMessage>>

(***************************************************************************)
(* The remote endpoint.  A response is what http.Client.Do and the body    *)
(* give: transport (FALSE: Do or ReadAll failed), the status, whether the  *)
(* body parses as a ChatResponse, whether it carries an error object, and  *)
(* its choices.                                                            *)
(***************************************************************************)
Response(transport, status, parses, error, choices) ==
    [transport |-> transport, status |-> status, parses |-> parses, error |-> error,
     choices |-> choices]

\* the tool calls the model may ask for
ToolCallSeq == <<
    ToolCall(<<"call_1">>, "cat", Obj([path |-> JStr(<<".", "e", "n", "v">>)])),
    ToolCall(<<"call_1">>, "cat", Obj([path |-> JStr(<<"m">>)])),
    ToolCall(<<"call_2">>, "head", Obj([path |-> JStr(<<"d", "/", ".", "e", "n", "v">>),
                                        lines |-> JNum(5)])),
    ToolCall(<<"call_3">>, "write_markdown", Obj([path |-> JStr(AMd), content |-> JStr(<<"x">>)])),
    ToolCall(<<"call_2">>, "cat", Obj([path |-> JStr(<<".", ".", "/", ".", "e", "n", "v">>)])),
    ToolCall(<<"call_3">>, "rm", Obj([path |-> JStr(<<"m">>)])),
    ToolCall(<<"call_1">>, "ls", Malformed) >>

\* the lists of tool calls of one assistant message: the runs of up to
\* MaxCalls successive calls of ToolCallSeq, taken cyclically
ToolCallLists ==
    {[j \in 1..k |-> ToolCallSeq[((i + j - 2) % Len(ToolCallSeq)) + 1]] :
        i \in 1..Len(ToolCallSeq), k \in 1..MaxCalls}

\* the final messages the model may send: content, reasoning, both or none
FinalMessages == {Message("assistant", c, <<>>, Empty, r) :
                     <<c, r>> \in {<<<<"answer">>, Empty>>, <<Empty, <<"thoughts">>>>,
                                   <<Empty, Empty>>}}

ToolMessages == {Message("assistant", Empty, tcs, Empty, Empty) : tcs \in ToolCallLists}

\* the responses that make the call fail
FailResponses == {
    Response(FALSE, 0, FALSE, FALSE, <<>>),
    Response(TRUE, 500, TRUE, TRUE, <<>>),
    Response(TRUE, 429, FALSE, FALSE, <<>>),
    Response(TRUE, 200, FALSE, FALSE, <<>>),
    Response(TRUE, 200, TRUE, TRUE, <<Message("assistant", <<"answer">>, <<>>, Empty, Empty)>>),
    Response(TRUE, 200, TRUE, FALSE, <<>>) }

\* the responses the endpoint may give when the history has room for n more
\* messages (the bound MaxMsgs of the model)
Responses(n) ==
    FailResponses
    \cup {Response(TRUE, 200, TRUE, FALSE, <<m>>) : m \in {f \in FinalMessages : n >= 1}}
    \cup {Response(TRUE, 200, TRUE, FALSE, <<m>>) :
             m \in {t \in ToolMessages : n >= 1 + Len(t.tool_calls)}}

\* sendRequest without the check of the error object
sendRequest_NoErrorCheck(r) ==
    IF ~r.transport THEN [err |-> <<"request failed: ">>, resp |-> r]
    ELSE IF r.status # 200
    THEN [err |-> <<"API returned status ", ToString(r.status)>>, resp |-> r]
    ELSE IF ~r.parses THEN [err |-> <<"failed to parse response: ">>, resp |-> r]
    ELSE [err |-> Nil, resp |-> r]

\* Client.sendRequest on response r: [err, resp]
sendRequest(r) ==
    IF ~r.transport THEN [err |-> <<"request failed: ">>, resp |-> r]
    ELSE IF r.status # 200
    THEN [err |-> <<"API returned status ", ToString(r.status)>>, resp |-> r]
    ELSE IF ~r.parses THEN [err |-> <<"failed to parse response: ">>, resp |-> r]
    ELSE IF r.error THEN [err |-> <<"API error: ">>, resp |-> r]
    ELSE [err |-> Nil, resp |-> r]

\* the outcomes of the processes and system calls of a tool call
SessionEnvs ==
    {[mode |-> "given", matched |-> {}, p |-> <<o, o>>, mkdirOk |-> TRUE, write |-> w] :
        <<o, w>> \in {<<Outcome(FALSE, FALSE, <<"output">>, FALSE), "ok">>,
                      <<Outcome(FALSE, TRUE, Empty, FALSE), "open">>,
                      <<Outcome(TRUE, TRUE, <<"output">>, FALSE), "ok">>}}

\* an event of the log: ev is "request" (i: length of the history sent),
\* "response" (i: number of tool calls, args: the response), "return" (args:
\* the response), "exec", "callback" and "append" (i: index of the tool call
\* in the assistant message; name, args: the tool call's; text: the number
\* of processes started, resp. the result text passed), or "reset" (i:
\* length of the history before)
Event(ev, i, name, args, text) ==
    [ev |-> ev, i |-> i, name |-> name, args |-> args, text |-> text]

InitSession ==
    /\ NewClient
    /\ pc = "idle" /\ idx = 0 /\ assistantMsg = SystemMessage /\ result = Empty
    /\ toolErr = Nil
    /\ ret = [state |-> "none", answer |-> Empty, err |-> Nil]
    /\ inflight = 0 /\ hasCb = FALSE
    /\ pre = <<>> /\ rounds = <<>> /\ log = <<>>
    /\ blockedPatterns = defaultBlockedPatterns
    /\ cwd = <<"/", "a">>
    /\ fs = FilesAt({<<".", "e", "n", "v">>, <<"m">>, <<"d", "/", ".", "e", "n", "v">>}).files
    /\ dirs = FilesAt({<<".", "e", "n", "v">>, <<"m">>, <<"d", "/", ".", "e", "n", "v">>}).dirs
    /\ HarnessOff
    /\ SpinnerOff

UserTexts == {<<"question">>}

\* ChatStart putting the user message in front of the history
ChatStart_Prepend ==
    /\ pc = "idle"
    /\ Len(messages) + 2 <= MaxMsgs
    /\ \E u \in UserTexts, cb \in BOOLEAN :
          /\ messages' = <<Message("user", u, <<>>, Empty, Empty)>> \o messages
          /\ hasCb' = cb
    /\ pre' = messages
    /\ rounds' = <<>>
    /\ log' = <<>>
    /\ ret' = [state |-> "none", answer |-> Empty, err |-> Nil]
    /\ pc' = "request"
    /\ UNCHANGED <<spinnerVars, idx, assistantMsg, result, toolErr, inflight, envVars, harnessVars>>

\* Chat, up to the loop: the user message is appended
ChatStart ==
    /\ pc = "idle"
    /\ Len(messages) + 2 <= MaxMsgs
    /\ \E u \in UserTexts, cb \in BOOLEAN :
          /\ messages' = Append(messages, Message("user", u, <<>>, Empty, Empty))
          /\ hasCb' = cb
    /\ pre' = messages
    /\ rounds' = <<>>
    /\ log' = <<>>
    /\ ret' = [state |-> "none", answer |-> Empty, err |-> Nil]
    /\ pc' = "request"
    /\ UNCHANGED <<spinnerVars, idx, assistantMsg, result, toolErr, inflight, envVars, harnessVars>>

\* sendRequest, up to http.Client.Do: the request carrying the history is sent
SendRequest ==
    /\ pc = "request"
    /\ inflight' = inflight + 1
    /\ log' = Append(log, Event("request", Len(messages), "", Malformed, Empty))
    /\ pc' = "await"
    /\ UNCHANGED <<spinnerVars, messages, idx, assistantMsg, result, toolErr, ret, hasCb, pre, rounds, envVars,
                   harnessVars>>

\* FinalText without the reasoning fallback
FinalText_ContentOnly(m) == m.content

\* the text Chat returns for a final message
FinalText(m) == IF m.content = Empty /\ m.reasoning # Empty THEN m.reasoning ELSE m.content

\* the rest of sendRequest and of the loop body, up to the tool loop or the
\* return
Receive ==
    /\ pc = "await"
    /\ inflight' = inflight - 1
    /\ \E r \in Responses(MaxMsgs - Len(messages)) :
          LET sr == sendRequest(r)
              m == sr.resp.choices[1]
          IN  IF sr.err # Nil
              THEN /\ ret' = [state |-> "error", answer |-> Empty, err |-> sr.err]
                   /\ log' = Append(log, Event("return", 0, "", r, Empty))
                   /\ pc' = "idle"
                   /\ UNCHANGED <<messages, idx, assistantMsg, rounds>>
              ELSE IF Len(sr.resp.choices) = 0
              THEN /\ ret' = [state |-> "error", answer |-> Empty,
                              err |-> <<"no response from model">>]
                   /\ log' = Append(log, Event("return", 0, "", r, Empty))
                   /\ pc' = "idle"
                   /\ UNCHANGED <<messages, idx, assistantMsg, rounds>>
              ELSE /\ messages' = Append(messages, m)
                   /\ assistantMsg' = m
                   /\ IF Len(m.tool_calls) > 0
                      THEN /\ idx' = 1
                           /\ rounds' = Append(rounds, Len(m.tool_calls))
                           /\ log' = Append(log, Event("response", Len(m.tool_calls), "",
                                                       r, Empty))
                           /\ pc' = "exec"
                           /\ UNCHANGED ret
                      ELSE /\ ret' = [state |-> "ok", answer |-> FinalText(m), err |-> Nil]
                           /\ log' = Append(log, Event("return", 0, "", r, Empty))
                           /\ pc' = "idle"
                           /\ UNCHANGED <<idx, rounds>>
    /\ UNCHANGED <<spinnerVars, result, toolErr, hasCb, pre, envVars, harnessVars>>

\* ExecTool passing the error text on without the "Error: " prefix
ExecTool_RawError ==
    /\ pc = "exec"
    /\ \E env \in SessionEnvs :
       \E r \in {ExecuteTool(assistantMsg.tool_calls[idx].function.name,
                              assistantMsg.tool_calls[idx].function.arguments,
                              env, FS(fs, dirs))} :
              /\ result' = IF r.err # Nil THEN r.err ELSE r.out
              /\ toolErr' = r.err
              /\ fs' = r.F.files
              /\ dirs' = r.F.dirs
              /\ log' = Append(log, Event("exec", idx,
                                          assistantMsg.tool_calls[idx].function.name,
                                          assistantMsg.tool_calls[idx].function.arguments,
                                          <<ToString(r.nproc)>>))
    /\ pc' = IF hasCb THEN "callback" ELSE "append"
    /\ UNCHANGED <<spinnerVars, messages, idx, assistantMsg, ret, inflight, hasCb, pre, rounds,
                   blockedPatterns, cwd, harnessVars>>

\* the tool loop: ExecuteTool on the idx-th tool call of assistantMsg
ExecTool ==
    /\ pc = "exec"
    /\ \E env \in SessionEnvs :
       \E r \in {ExecuteTool(assistantMsg.tool_calls[idx].function.name,
                              assistantMsg.tool_calls[idx].function.arguments,
                              env, FS(fs, dirs))} :
              /\ result' = IF r.err # Nil THEN <<"Error: ">> \o r.err ELSE r.out
              /\ toolErr' = r.err
              /\ fs' = r.F.files
              /\ dirs' = r.F.dirs
              /\ log' = Append(log, Event("exec", idx,
                                          assistantMsg.tool_calls[idx].function.name,
                                          assistantMsg.tool_calls[idx].function.arguments,
                                          <<ToString(r.nproc)>>))
    /\ pc' = IF hasCb THEN "callback" ELSE "append"
    /\ UNCHANGED <<spinnerVars, messages, idx, assistantMsg, ret, inflight, hasCb, pre, rounds,
                   blockedPatterns, cwd, harnessVars>>

\* Callback passing the empty string for the result
Callback_NoResult ==
    /\ pc = "callback"
    /\ log' = Append(log, Event("callback", idx, assistantMsg.tool_calls[idx].function.name,
                                assistantMsg.tool_calls[idx].function.arguments, Empty))
    /\ pc' = "append"
    /\ UNCHANGED <<spinnerVars, messages, idx, assistantMsg, result, toolErr, ret, inflight, hasCb, pre, rounds,
                   envVars, harnessVars>>

\* the tool loop: onToolCall(name, arguments, result)
Callback ==
    /\ pc = "callback"
    /\ LET tc == assistantMsg.tool_calls[idx]
       IN  log' = Append(log, Event("callback", idx, tc.function.name,
                                    tc.function.arguments, result))
    /\ pc' = "append"
    /\ UNCHANGED <<spinnerVars, messages, idx, assistantMsg, result, toolErr, ret, inflight, hasCb, pre, rounds,
                   envVars, harnessVars>>

\* AppendResult echoing the id of the first tool call in every tool message
AppendResult_FirstID ==
    /\ pc = "append"
    /\ messages' = Append(messages, Message("tool", result, <<>>,
                                            assistantMsg.tool_calls[1].id, Empty))
    /\ log' = Append(log, Event("append", idx, "", Malformed, Empty))
    /\ IF idx < Len(assistantMsg.tool_calls)
       THEN idx' = idx + 1 /\ pc' = "exec"
       ELSE idx' = idx /\ pc' = "request"
    /\ UNCHANGED <<spinnerVars, assistantMsg, result, toolErr, ret, inflight, hasCb, pre, rounds, envVars,
                   harnessVars>>

\* the tool loop: the tool message is appended; after the last tool call the
\* loop continues with the next request
AppendResult ==
    /\ pc = "append"
    /\ LET tc == assistantMsg.tool_calls[idx]
       IN  messages' = Append(messages, Message("tool", result, <<>>, tc.id, Empty))
    /\ log' = Append(log, Event("append", idx, "", Malformed, Empty))
    /\ IF idx < Len(assistantMsg.tool_calls)
       THEN idx' = idx + 1 /\ pc' = "exec"
       ELSE idx' = idx /\ pc' = "request"
    /\ UNCHANGED <<spinnerVars, assistantMsg, result, toolErr, ret, inflight, hasCb, pre, rounds, envVars,
                   harnessVars>>

\* Reset keeping the last message of the history
Reset_KeepLast ==
    /\ pc = "idle"
    /\ messages' = SubSeq(messages, Len(messages), Len(messages))
    /\ log' = <<Event("reset", Len(messages), "", Malformed, Empty)>>
    /\ UNCHANGED <<spinnerVars, pc, idx, assistantMsg, result, toolErr, ret, inflight, hasCb, pre, rounds,
                   envVars, harnessVars>>

\* Reset keeping the first two messages
Reset_KeepTwo ==
    /\ pc = "idle"
    /\ messages' = SubSeq(messages, 1, IF Len(messages) >= 2 THEN 2 ELSE 1)
    /\ log' = <<Event("reset", Len(messages), "", Malformed, Empty)>>
    /\ UNCHANGED <<spinnerVars, pc, idx, assistantMsg, result, toolErr, ret, inflight, hasCb, pre, rounds,
                   envVars, harnessVars>>

\* Client.Reset, called between two Chat calls
Reset ==
    /\ pc = "idle"
    /\ messages' = SubSeq(messages, 1, 1)
    /\ log' = <<Event("reset", Len(messages), "", Malformed, Empty)>>
    /\ UNCHANGED <<spinnerVars, pc, idx, assistantMsg, result, toolErr, ret, inflight, hasCb, pre, rounds,
                   envVars, harnessVars>>

Next ==
    \/ ChatStart
    \/ SendRequest
    \/ Receive
    \/ ExecTool
    \/ Callback
    \/ AppendResult
    \/ Reset

Spec == InitSession /\ [][Next]_vars

(***************************************************************************)
(* Properties of the session (Spec).                                       *)
(***************************************************************************)
LastEvent == log[Len(log)]

EndsWith(ev) == log # <<>> /\ LastEvent.ev = ev

\* ---- C3 ----
\* the tool call being processed by the tool loop
CurrentCall == assistantMsg.tool_calls[idx]

PathOf(tc) == getString(tc.function.arguments.obj, "path", Empty)

\* tc is a cat or head call on a path IsPathBlocked reports as blocked
BlockedRead(tc) ==
    /\ tc.function.name \in {"cat", "head"}
    /\ tc.function.arguments.wellformed
    /\ PathOf(tc) # Empty
    /\ IsPathBlocked(PathOf(tc))

AccessDenied(p) == <<"access denied: ">> \o p \o <<" is in ignore list">>

\* the tool message that carries text as the result of tool call tc
ToolResult(tc, text) == Message("tool", text, <<>>, tc.id, Empty)

\* the tool call has been executed, its result is not yet appended
Executed == pc \in {"callback", "append"}

\* the result of the tool call has just been appended to the history
Appended == pc \in {"exec", "request"} /\ EndsWith("append")

\* the call whose result has just been appended
AppendedCall == assistantMsg.tool_calls[LastEvent.i]

\* C3 as stated: cat and head on a blocked path return 'access denied: <path>
\* is in ignore list' before any process is started; the denial becomes the
\* text of the tool message and the Chat call goes on.
C3_Original ==
    /\ (Executed /\ BlockedRead(CurrentCall)) =>
          /\ result = <<"Error: ">> \o AccessDenied(PathOf(CurrentCall))
          /\ \E n \in 1..Len(log) :
                log[n].ev = "exec" /\ log[n].i = idx /\ log[n].text = <<"0">>
                /\ \A k \in (n + 1)..Len(log) : log[k].ev = "callback"
    /\ (Appended /\ BlockedRead(AppendedCall)) =>
          /\ messages[Len(messages)] =
                ToolResult(AppendedCall, <<"Error: ">> \o AccessDenied(PathOf(AppendedCall)))
          /\ ret.state = "none"

\* the error of a cat or head call on the blocked path p: ExecuteTool
\* validates the path before it dispatches
Denial(p) == IF validatePath(p).err # Nil THEN validatePath(p).err ELSE AccessDenied(p)

\* C3, amended: cat and head on a blocked path start no process and return
\* an error, 'path traversal not allowed: <path>' when the path fails the
\* path validation of ExecuteTool and 'access denied: <path> is in ignore
\* list' otherwise; the error becomes the text of the tool message and the
\* Chat call goes on.
C3_BlockedReadDenied ==
    /\ (Executed /\ BlockedRead(CurrentCall)) =>
          /\ result = <<"Error: ">> \o Denial(PathOf(CurrentCall))
          /\ \E n \in 1..Len(log) :
                log[n].ev = "exec" /\ log[n].i = idx /\ log[n].text = <<"0">>
                /\ \A k \in (n + 1)..Len(log) : log[k].ev = "callback"
    /\ (Appended /\ BlockedRead(AppendedCall)) =>
          /\ messages[Len(messages)] =
                ToolResult(AppendedCall, <<"Error: ">> \o Denial(PathOf(AppendedCall)))
          /\ ret.state = "none"

\* the denial of a head call on a blocked path inside the working directory
\* has been appended and the next request is due
C3_Witness ==
    /\ Appended /\ pc = "request"
    /\ AppendedCall.function.name = "head"
    /\ BlockedRead(AppendedCall)
    /\ messages[Len(messages)].content =
          <<"Error: ">> \o AccessDenied(PathOf(AppendedCall))

\* ---- C5 ----
\* C5: after Reset the history holds exactly one message, of role system,
\* whatever Chat calls and Resets came before.
C5_ResetLeavesSystemOnly ==
    EndsWith("reset") => Len(messages) = 1 /\ messages[1].role = "system"

\* Reset has cut a history of at least five messages whose last Chat call
\* failed
C5_Witness == EndsWith("reset") /\ LastEvent.i >= 5 /\ ret.state = "error"

\* ---- C6 ----
\* C6: in every state of a session the history is not empty and its first
\* message is the system message NewClient created.
C6_SystemMessageFirst == messages # <<>> /\ messages[1] = SystemMessage

\* after a successful Chat call with a tool round and a Reset, the system
\* message is what is left
C6_Witness ==
    /\ EndsWith("reset") /\ ret.state = "ok" /\ rounds # <<>>
    /\ messages = <<SystemMessage>>

\* ---- C7, C10: the layout of the history ----
Roles(ms) == [i \in 1..Len(ms) |-> ms[i].role]

\* the messages the current (or last) Chat call added
Added == SubSeq(messages, Len(pre) + 1, Len(messages))

\* the roles of the messages of tool rounds carrying ks[1], ks[2], .. calls
RECURSIVE RoundRoles(_)
RoundRoles(ks) ==
    IF ks = <<>> THEN <<>>
    ELSE <<"assistant">> \o [j \in 1..Head(ks) |-> "tool"] \o RoundRoles(Tail(ks))

\* the number of tool calls of each assistant message of ms
AssistantCalls(ms) ==
    [i \in 1..Len(SelectSeq(ms, LAMBDA m : m.role = "assistant")) |->
        Len(SelectSeq(ms, LAMBDA m : m.role = "assistant")[i].tool_calls)]

PriorIsPrefix == Len(pre) <= Len(messages) /\ SubSeq(messages, 1, Len(pre)) = pre

Returned(state) == pc = "idle" /\ EndsWith("return") /\ ret.state = state

\* C7: a Chat call that ends successfully after the tool rounds `rounds`
\* leaves the prior history as a prefix and has appended one user message,
\* per round one assistant message and its k tool messages, and one final
\* assistant message, whose text (content, or reasoning when the content is
\* empty) it returns; one round of one call on a fresh session gives
\* system, user, assistant, tool, assistant.
C7_SuccessfulChatLayout ==
    Returned("ok") =>
        /\ PriorIsPrefix
        /\ Roles(Added) = <<"user">> \o RoundRoles(rounds) \o <<"assistant">>
        /\ AssistantCalls(Added) = rounds \o <<0>>
        /\ ret.answer = IF messages[Len(messages)].content = Empty
                        THEN messages[Len(messages)].reasoning
                        ELSE messages[Len(messages)].content
        /\ ret.err = Nil
        /\ (pre = <<SystemMessage>> /\ rounds = <<1>>) =>
              Roles(messages) = <<"system", "user", "assistant", "tool", "assistant">>

\* the five-message history, the answer being the reasoning field
C7_Witness ==
    /\ Returned("ok") /\ pre = <<SystemMessage>> /\ rounds = <<1>>
    /\ Len(messages) = 5
    /\ ret.answer = <<"thoughts">>

\* ---- C8 ----
\* the k tool calls of the assistant message at position i are answered by
\* the k messages after it, and by no more
Paired(i) ==
    /\ i + Len(messages[i].tool_calls) <= Len(messages)
    /\ \A j \in 1..Len(messages[i].tool_calls) :
          /\ messages[i + j].role = "tool"
          /\ messages[i + j].tool_call_id = messages[i].tool_calls[j].id
    /\ i + Len(messages[i].tool_calls) < Len(messages) =>
          messages[i + Len(messages[i].tool_calls) + 1].role # "tool"

AllPaired ==
    \A i \in 1..Len(messages) :
        (messages[i].role = "assistant" /\ Len(messages[i].tool_calls) >= 1) => Paired(i)

\* C8: whenever Chat has returned, every assistant message with k >= 1 tool
\* calls is followed by exactly k tool messages, the i-th carrying the id of
\* the i-th tool call.
C8_ToolCallsPaired == pc = "idle" => AllPaired

\* a failed Chat call has left an assistant message with two tool calls of
\* different ids and their two results
C8_Witness ==
    /\ Returned("error")
    /\ \E i \in 1..Len(messages) :
          /\ Len(messages[i].tool_calls) = 2
          /\ messages[i].tool_calls[1].id # messages[i].tool_calls[2].id
          /\ Paired(i)

\* ---- C9 ----
\* event f may directly follow event e in the log of a Chat call whose
\* assistant message carries k tool calls
Follows(e, f, k) ==
    CASE e.ev = "request" -> f.ev \in {"response", "return"}
      [] e.ev = "response" -> f.ev = "exec" /\ f.i = 1
      [] e.ev = "exec" ->
            /\ f.ev = IF hasCb THEN "callback" ELSE "append"
            /\ f.i = e.i
            /\ f.ev = "callback" => f.name = e.name /\ f.args = e.args
      [] e.ev = "callback" -> f.ev = "append" /\ f.i = e.i
      [] e.ev = "append" -> IF e.i < k THEN f.ev = "exec" /\ f.i = e.i + 1
                            ELSE f.ev = "request"
      [] OTHER -> FALSE

\* the number of tool calls of the response that precedes the n-th event
RECURSIVE CallsBefore(_)
CallsBefore(n) ==
    IF n = 0 THEN 0
    ELSE IF log[n].ev = "response" THEN log[n].i
    ELSE CallsBefore(n - 1)

\* the events exec, callback and append of one tool call are about that call
\* and carry its result
AboutCall(e, tc) ==
    /\ e.ev \in {"exec", "callback"} => e.name = tc.function.name
                                        /\ e.args = tc.function.arguments
    /\ e.ev = "callback" => e.text = result

\* C9: at most one model request is in flight; the tool calls of an
\* assistant message are executed one at a time in their order; the callback,
\* when supplied, is invoked once per executed call with (name, argument
\* JSON, result text), after the execution and before the result is appended
\* and the next request is sent; no request is sent while a tool call of the
\* latest assistant message lacks its tool message.
C9_OneStepAtATime ==
    /\ inflight \in {0, 1}
    /\ inflight = 1 <=> pc = "await"
    /\ (log # <<>> /\ log[1].ev # "reset") => log[1].ev = "request"
    /\ \A n \in 1..(Len(log) - 1) : Follows(log[n], log[n + 1], CallsBefore(n))
    /\ (log # <<>> /\ LastEvent.ev \in {"exec", "callback"}) => AboutCall(LastEvent, CurrentCall)
    /\ (Appended /\ hasCb) =>
          /\ log[Len(log) - 1].ev = "callback"
          /\ log[Len(log) - 1].text = messages[Len(messages)].content
    /\ pc = "await" => (LastEvent.i = Len(messages) /\ AllPaired)

\* with a callback, two tool calls have been executed, reported and appended
\* in order and the next request is in flight
C9_Witness ==
    /\ pc = "await" /\ hasCb /\ Len(log) = 9
    /\ log[4].ev = "callback" /\ log[4].i = 1
    /\ log[7].ev = "callback" /\ log[7].i = 2
    /\ log[4].text # log[7].text

\* ---- C10 ----
\* the request that got response r fails, or r has no choices
Fails(r) == ~r.transport \/ r.status # 200 \/ ~r.parses \/ r.error \/ r.choices = <<>>

\* C10: when a request fails or its response has no choices, Chat returns an
\* error and the empty answer and the history is the prior history, the user
\* message and the completed tool rounds; a Chat call appends its user
\* message to the history as it is.
C10_FailedChatLayout ==
    /\ (pc = "idle" /\ EndsWith("return") /\ Fails(LastEvent.args)) =>
          /\ ret.state = "error" /\ ret.err # Nil /\ ret.answer = Empty
          /\ PriorIsPrefix
          /\ Roles(Added) = <<"user">> \o RoundRoles(rounds)
          /\ AssistantCalls(Added) = rounds
    /\ pc # "idle" => (PriorIsPrefix /\ Len(messages) > Len(pre)
                       /\ messages[Len(pre) + 1].role = "user")

\* a Chat call on the history of an earlier one failed on a response with an
\* error object and status 200, after a completed tool round
C10_Witness ==
    /\ pc = "idle" /\ EndsWith("return") /\ ret.state = "error"
    /\ LastEvent.args.error /\ LastEvent.args.status = 200 /\ LastEvent.args.choices # <<>>
    /\ Len(pre) >= 3 /\ rounds # <<>>

\* ---- C11 ----
\* C11: an error of ExecuteTool does not end the Chat call: the result text
\* and the content of the tool message are "Error: " followed by the error
\* text, and the loop goes on with the next tool call of the assistant
\* message or, after the last one, with the next request.
C11_ToolErrorContinues ==
    /\ (Executed /\ toolErr # Nil) =>
          /\ result = <<"Error: ">> \o toolErr
          /\ ret.state = "none"
    /\ (Appended /\ toolErr # Nil) =>
          /\ messages[Len(messages)] = ToolResult(AppendedCall, <<"Error: ">> \o toolErr)
          /\ ret.state = "none"
          /\ pc = IF LastEvent.i < Len(assistantMsg.tool_calls) THEN "exec" ELSE "request"
          /\ pc = "exec" => idx = LastEvent.i + 1

\* the first of two tool calls timed out: its error is in the history and
\* the second call is due
C11_Witness ==
    /\ Appended /\ pc = "exec" /\ idx = 2
    /\ toolErr = <<"command timed out">>
    /\ messages[Len(messages)].content = <<"Error: ", "command timed out">>

(***************************************************************************)
(* SpecTool: one call of ExecuteTool, for every tool name (declared or     *)
(* not), a range of argument objects and every outcome of the processes    *)
(* and system calls, on a working directory /a that is empty or holds      *)
(* a.md and m.                                                             *)
(***************************************************************************)
\* the names ExecuteTool dispatches on
DispatchedNames == {"ls", "cat", "head", "grep", "find", "tree", "write_markdown"}

\* names ExecuteTool has no case for
UnknownNames == {"rm", "", "LS"}

ToolPaths == {<<"m">>, <<".", "e", "n", "v">>, AMd, <<"d", "/", "b", ".", "m", "d">>,
              <<".", ".", "/", "p">>, <<".", ".", "/", "t", ".", "m", "d">>,
              <<"/", "e", "t", "c", "/", "p">>}

ToolArgs ==
    {Malformed, Obj(<<>>), Obj([path |-> JNum(1)]), Obj([pattern |-> JStr(<<"K">>)])}
    \cup {Obj([path |-> JStr(p)]) : p \in ToolPaths}
    \cup {Obj([path |-> JStr(p), content |-> JStr(<<"x", " ", "\n", "\n", "\n", "\n", "y">>)]) :
             p \in ToolPaths}
    \cup {Obj([path |-> JStr(p), pattern |-> JStr(<<"K">>)]) : p \in ToolPaths}

ToolEnvs ==
    {[mode |-> "given", matched |-> {}, p |-> <<o[1], o[2]>>, mkdirOk |-> o[3], write |-> o[4]] :
        o \in {<<Outcome(FALSE, FALSE, <<"output">>, FALSE),
                 Outcome(FALSE, FALSE, <<"output">>, FALSE), TRUE, "ok">>,
               <<Outcome(FALSE, TRUE, Empty, FALSE),
                 Outcome(FALSE, FALSE, <<"listing">>, TRUE), FALSE, "ok">>,
               <<Outcome(TRUE, TRUE, <<"output">>, FALSE),
                 Outcome(FALSE, TRUE, Empty, FALSE), TRUE, "io">>,
               <<Outcome(FALSE, TRUE, <<"warning">>, FALSE),
                 Outcome(FALSE, FALSE, <<"output">>, FALSE), TRUE, "open">>}}

InitTool ==
    /\ SessionOff
    /\ SpinnerOff
    /\ blockedPatterns = defaultBlockedPatterns
    /\ cwd = <<"/", "a">>
    /\ dirs = AncestorsOrSelf(cwd)
    /\ fs \in {<<>>, [f \in {Abs(AMd), Abs(<<"m">>)} |-> <<"o", "l", "d", "\n">>]}
    /\ arg \in [tool : DispatchedNames \cup UnknownNames, args : ToolArgs, env : ToolEnvs,
                F : {FS(fs, dirs)}]
    /\ res = R(Empty, Nil, FS(fs, dirs), 0)
    /\ phase = "in"
    /\ ncalls = 0
    /\ written = <<>>

CallTool ==
    /\ phase = "in"
    /\ \E r \in {ExecuteTool(arg.tool, arg.args, arg.env, FS(fs, dirs))} :
          /\ res' = r
          /\ fs' = r.F.files
          /\ dirs' = r.F.dirs
    /\ phase' = "out"
    /\ UNCHANGED <<spinnerVars, arg, ncalls, written, sessionVars, blockedPatterns, cwd>>

NextTool == CallTool

SpecTool == InitTool /\ [][NextTool]_vars

\* the call started no process and the file system is as it was before it
NothingDone == res.nproc = 0 /\ res.out = Empty /\ FS(fs, dirs) = arg.F

\* the string path argument of the call, when it has one
HasPathArg == arg.args.wellformed /\ Has(arg.args.obj, "path", "string")

PathArg == arg.args.obj["path"].s

\* ---- C12 ----
\* C12: ExecuteTool rejects malformed argument JSON first, and then a path
\* argument that fails validatePath, with the traversal error; in both
\* cases, for every tool, no process is started and no file or directory is
\* created or changed.
C12_ChecksBeforeDispatch ==
    phase = "out" =>
        /\ ~arg.args.wellformed =>
              /\ res.err = <<"invalid arguments: unexpected end of JSON input">>
              /\ NothingDone
        /\ (HasPathArg /\ validatePath(PathArg).err # Nil) =>
              /\ res.err = <<"path traversal not allowed: ">> \o PathArg
              /\ NothingDone

\* write_markdown with ../t.md and content, every system call ready to
\* succeed, was refused with the traversal error
C12_Witness ==
    /\ phase = "out" /\ arg.tool = "write_markdown"
    /\ HasPathArg /\ PathArg = <<".", ".", "/", "t", ".", "m", "d">>
    /\ Has(arg.args.obj, "content", "string")
    /\ arg.env.mkdirOk /\ arg.env.write = "ok"
    /\ res.err = <<"path traversal not allowed: ">> \o PathArg

\* ---- C13 ----
UnknownTool == <<"unknown tool: ", arg.tool>>

\* C13 as stated: for a name that is none of the seven tools and a
\* well-formed argument object ExecuteTool returns 'unknown tool: <name>'
\* and does nothing to the file system.
C13_Original ==
    (phase = "out" /\ arg.tool \notin DispatchedNames /\ arg.args.wellformed) =>
        res.err = UnknownTool /\ NothingDone

\* C13, amended: for a name that is none of the seven tools and a
\* well-formed argument object ExecuteTool does nothing to the file system
\* and returns 'unknown tool: <name>', unless the object has a string path
\* that fails validatePath: then it returns the traversal error.
C13_UnknownToolRejected ==
    (phase = "out" /\ arg.tool \notin DispatchedNames /\ arg.args.wellformed) =>
        /\ NothingDone
        /\ res.err = IF HasPathArg /\ validatePath(PathArg).err # Nil
                     THEN <<"path traversal not allowed: ">> \o PathArg
                     ELSE UnknownTool

\* rm on the existing file m was refused as an unknown tool
C13_Witness ==
    /\ phase = "out" /\ arg.tool = "rm"
    /\ HasPathArg /\ PathArg = <<"m">> /\ Abs(PathArg) \in DOMAIN fs
    /\ res.err = <<"unknown tool: ", "rm">>

\* ---- C14 ----
DeclaredNames == {ToolDefinitions[i].function.name : i \in 1..Len(ToolDefinitions)}

\* the elements of a sequence are pairwise different
Distinct(s) == \A i, j \in 1..Len(s) : s[i] = s[j] => i = j

\* C14: the names ToolDefinitions declares are the names ExecuteTool
\* dispatches on, the seven tools; each is declared once, with type
\* function, a description and a parameters object, and has one case: a
\* call whose arguments pass the checks is answered 'unknown tool' exactly
\* when its name is not declared.
C14_DeclaredIsDispatched ==
    /\ DeclaredNames = {DispatchCases[i] : i \in 1..Len(DispatchCases)}
    /\ DeclaredNames = {"ls", "cat", "head", "grep", "find", "tree", "write_markdown"}
    /\ Distinct([i \in 1..Len(ToolDefinitions) |-> ToolDefinitions[i].function.name])
    /\ Distinct(DispatchCases)
    /\ \A i \in 1..Len(ToolDefinitions) :
          /\ ToolDefinitions[i].type = "function"
          /\ ToolDefinitions[i].function.description # Empty
          /\ ToolDefinitions[i].function.parameters.type = "object"
    /\ (phase = "out" /\ arg.args.wellformed
        /\ ~(HasPathArg /\ validatePath(PathArg).err # Nil)) =>
          (res.err = UnknownTool <=> arg.tool \notin DeclaredNames)

\* the declared tool tree was dispatched: it ran its process
C14_Witness ==
    /\ phase = "out" /\ arg.tool = "tree" /\ arg.tool \in DeclaredNames
    /\ arg.args.wellformed /\ res.err = Nil /\ res.nproc >= 1

(***************************************************************************)
(* SpecBlock: one call of IsPathBlocked, on every short path for every     *)
(* blocked set of one short pattern, and on a list of named paths for the  *)
(* default patterns.                                                       *)
(***************************************************************************)
MaxBlockPathLen == 4
MaxPatternLen == 3

BlockPathChars == {"/", "a", "?"}

PatternChars == {"/", "a", "?", "*"}

BlockPaths == UNION {[1..n -> BlockPathChars] : n \in 0..MaxBlockPathLen}

Patterns == UNION {[1..n -> PatternChars] : n \in 1..MaxPatternLen}

\* the default patterns without glob character that name a file
LiteralNames ==
    {<<".", "e", "n", "v">>,
     <<"i", "d", "_", "r", "s", "a">>,
     <<"i", "d", "_", "e", "d", "2", "5", "5", "1", "9">>,
     <<".", "n", "e", "t", "r", "c">>,
     <<".", "n", "p", "m", "r", "c">>,
     <<".", "p", "y", "p", "i", "r", "c">>}

\* names no default pattern is meant for
SafeNames ==
    {<<"i", "d", "_", "r", "s", "a", ".", "p", "u", "b">>,
     <<"p", "u", "b", "l", "i", "c", "_", "k", "e", "y", ".", "p", "u", "b">>,
     <<"m", "a", "i", "n", ".", "g", "o">>,
     <<"R", "E", "A", "D", "M", "E", ".", "m", "d">>,
     <<"c", "o", "n", "f", "i", "g", ".", "y", "a", "m", "l">>,
     <<".", "g", "i", "t", "i", "g", "n", "o", "r", "e">>,
     <<"D", "o", "c", "k", "e", "r", "f", "i", "l", "e">>}

SshNames == {<<"c", "o", "n", "f", "i", "g">>,
     <<"k", "n", "o", "w", "n", "_", "h", "o", "s", "t", "s">>}

\* the directories the named files are put in ("": the working directory)
DirPrefixes == {<<>>, <<"a", "/">>, <<"a", "/", "b", "/">>, <<"/", "a", "/">>, <<".", "/">>, <<".", ".", "/">>}

SshDir == <<".", "s", "s", "h", "/">>

NamedPaths ==
    {d \o n : d \in DirPrefixes, n \in LiteralNames \cup SafeNames}
    \cup {d \o SshDir \o n : d \in DirPrefixes, n \in SshNames}

InitBlock ==
    /\ SessionOff
    /\ SpinnerOff
    /\ cwd = <<"/", "a">>
    /\ EmptyDir
    /\ \/ blockedPatterns \in {<<p>> : p \in Patterns} /\ arg \in BlockPaths
       \/ blockedPatterns = defaultBlockedPatterns /\ arg \in NamedPaths
    /\ res = FALSE
    /\ phase = "in"
    /\ ncalls = 0
    /\ written = <<>>

CallIsPathBlocked ==
    /\ phase = "in"
    /\ res' = IsPathBlocked(arg)
    /\ phase' = "out"
    /\ UNCHANGED <<spinnerVars, arg, ncalls, written, sessionVars, envVars>>

NextBlock == CallIsPathBlocked

SpecBlock == InitBlock /\ [][NextBlock]_vars

\* ---- C15 ----
\* the glob metacharacters of filepath.Match
GlobChars == {"*", "?", "[", "\\"}

NoGlobChar(pattern) == \A i \in 1..Len(pattern) : pattern[i] \notin GlobChars

\* C15: IsPathBlocked(p) is true exactly when for some pattern of the
\* blocked set the cleaned path or its base name matches the pattern as a
\* glob, or the pattern has no glob metacharacter and equals the base name
\* or follows a "/" at the end of the cleaned path.
C15_BlockedExactlyWhen ==
    phase = "out" =>
        (res <=> \E i \in 1..Len(blockedPatterns) :
                    \/ Match(blockedPatterns[i], Clean(arg))
                    \/ Match(blockedPatterns[i], Base(Clean(arg)))
                    \/ /\ NoGlobChar(blockedPatterns[i])
                       /\ \/ Base(Clean(arg)) = blockedPatterns[i]
                          \/ HasSuffix(Clean(arg), Slash \o blockedPatterns[i]))

\* ---- C16 ----
\* path resolves to a file directly under .ssh/ of the working directory
UnderSsh(path) == Dir(Abs(path)) = Abs(<<".", "s", "s", "h">>)

\* C16: with the default patterns a path whose base name is one of the
\* literal patterns .env, id_rsa, id_ed25519, .netrc, .npmrc, .pypirc is
\* blocked in whatever directory it lies, a path directly under .ssh/ is
\* blocked, and id_rsa.pub, public_key.pub and the ordinary files are not
\* blocked.
C16_DefaultsBlock ==
    (phase = "out" /\ blockedPatterns = defaultBlockedPatterns) =>
        /\ Base(Clean(arg)) \in LiteralNames => res
        /\ UnderSsh(arg) => res
        /\ (Base(Clean(arg)) \in SafeNames /\ ~UnderSsh(arg)) => ~res

(***************************************************************************)
(* SpecLoad: LoadIgnorePatterns at process start, for no ignore file and   *)
(* for every ignore file of up to MaxFileLines lines, followed by a call   *)
(* of IsPathBlocked on a probe path.                                       *)
(***************************************************************************)
MaxFileLines == 2

\* the lines an ignore file may hold; the last one is longer than the
\* scanner's token size
FileLines ==
    {[text |-> t, long |-> FALSE] :
        t \in {Empty, <<" ", "\t">>, <<"#", " ", "c">>, <<" ", "#", "m">>,
               <<"m">>, <<" ", "*", ".", "l", "o", "g", " ">>, <<"t", "/">>}}
    \cup {[text |-> <<"x", "x", "x">>, long |-> TRUE]}

IgnoreFiles ==
    {[opens |-> FALSE, lines |-> <<>>]}
    \cup {[opens |-> TRUE, lines |-> l] :
             l \in UNION {[1..n -> FileLines] : n \in 0..MaxFileLines}}

ProbePaths == {<<"m">>, <<"a", ".", "l", "o", "g">>, <<".", "e", "n", "v">>,
               <<"a", "/", "i", "d", "_", "r", "s", "a">>, <<"x", "x", "x">>,
               <<"#", "m">>}

InitLoad ==
    /\ SessionOff
    /\ SpinnerOff
    /\ blockedPatterns = <<>>
    /\ cwd = <<"/", "a">>
    /\ EmptyDir
    /\ arg \in IgnoreFiles
    /\ res = [path |-> Empty, blocked |-> FALSE]
    /\ phase = "start"
    /\ ncalls = 0
    /\ written = <<>>

CallLoadIgnorePatterns ==
    /\ phase = "start"
    /\ blockedPatterns' = LoadIgnorePatterns(blockedPatterns, arg)
    /\ phase' = "loaded"
    /\ UNCHANGED <<spinnerVars, arg, res, ncalls, written, sessionVars, cwd, fs, dirs>>

ProbeIsPathBlocked ==
    /\ phase = "loaded"
    /\ \E p \in ProbePaths : res' = [path |-> p, blocked |-> IsPathBlocked(p)]
    /\ phase' = "out"
    /\ UNCHANGED <<spinnerVars, arg, ncalls, written, sessionVars, envVars>>

NextLoad == CallLoadIgnorePatterns \/ ProbeIsPathBlocked

SpecLoad == InitLoad /\ [][NextLoad]_vars

\* ---- C17 ----
Range(s) == {s[i] : i \in 1..Len(s)}

\* the trimmed lines of the ignore file that are neither blank nor comments
FilePatterns(file) ==
    {TrimSpace(l.text) : l \in {x \in Range(file.lines) :
        TrimSpace(x.text) # Empty /\ ~HasPrefix(TrimSpace(x.text), <<"#">>)}}

\* path p is blocked under the default patterns alone
BlockedByDefault(p) ==
    \E i \in 1..Len(defaultBlockedPatterns) :
        PatternBlocks(defaultBlockedPatterns[i], Clean(p), Base(Clean(p)))

\* C17: after LoadIgnorePatterns the blocked set holds the default patterns
\* and each trimmed line of the ignore file that is neither blank nor a
\* comment; without an ignore file it is the defaults; a path blocked under
\* the defaults is blocked whatever the file holds.
C17_LoadAddsFilePatterns ==
    /\ phase \in {"loaded", "out"} =>
          /\ Range(blockedPatterns) =
                Range(defaultBlockedPatterns)
                \cup (IF arg.opens THEN FilePatterns(arg) ELSE {})
          /\ ~arg.opens => blockedPatterns = defaultBlockedPatterns
    /\ (phase = "out" /\ BlockedByDefault(res.path)) => res.blocked


(***************************************************************************)
(* SpecFilter: FilterBlockedPaths under the default patterns on every     *)
(* list of up to MaxListLen paths, then once more on its own result.       *)
(***************************************************************************)
MaxListLen == 3

ListPaths == {<<"m">>, <<".", "e", "n", "v">>, <<"a", "/", ".", "e", "n", "v">>,
              <<"b", ".", "g", "o">>, <<"i", "d", "_", "r", "s", "a">>}

PathLists == UNION {[1..n -> ListPaths] : n \in 0..MaxListLen}

InitFilter ==
    /\ SessionOff
    /\ SpinnerOff
    /\ blockedPatterns = defaultBlockedPatterns
    /\ cwd = <<"/", "a">>
    /\ EmptyDir
    /\ arg \in PathLists
    /\ res = <<>>
    /\ phase = "start"
    /\ ncalls = 0
    /\ written = <<>>

CallFilterBlockedPaths ==
    /\ phase = "start"
    /\ res' = FilterBlockedPaths(arg)
    /\ phase' = "once"
    /\ UNCHANGED <<spinnerVars, arg, ncalls, written, sessionVars, envVars>>

\* the result of the first call is kept in written and filtered again
CallFilterAgain ==
    /\ phase = "once"
    /\ written' = res
    /\ res' = FilterBlockedPaths(res)
    /\ phase' = "twice"
    /\ UNCHANGED <<spinnerVars, arg, ncalls, sessionVars, envVars>>

NextFilter == CallFilterBlockedPaths \/ CallFilterAgain

SpecFilter == InitFilter /\ [][NextFilter]_vars

\* ---- C18 ----
\* the positions of l whose entry is not blocked
Surviving(l) == {i \in 1..Len(l) : ~IsPathBlocked(l[i])}

\* the n-th smallest member of the set of positions K
Nth(K, n) == CHOOSE k \in K : Cardinality({j \in K : j <= k}) = n

\* out holds exactly the non-blocked entries of l, in the order of l
IsFiltered(out, l) ==
    /\ Len(out) = Cardinality(Surviving(l))
    /\ \A n \in 1..Len(out) : out[n] = l[Nth(Surviving(l), n)]

\* C18: FilterBlockedPaths returns exactly the non-blocked entries of its
\* input in their original relative order (nothing for an empty or fully
\* blocked input), and filtering its result again returns the same list.
C18_FilterKeepsOrderIdempotent ==
    /\ phase \in {"once", "twice"} =>
          IsFiltered(IF phase = "once" THEN res ELSE written, arg)
    /\ (phase = "once" /\ Surviving(arg) = {}) => res = <<>>
    /\ phase = "twice" => res = written

\* a list with a blocked entry between two survivors has been filtered twice
C18_Witness ==
    /\ phase = "twice"
    /\ arg = <<<<"m">>, <<".", "e", "n", "v">>, <<"b", ".", "g", "o">>>>
    /\ res = <<<<"m">>, <<"b", ".", "g", "o">>>>


(***************************************************************************)
(* SpecFormat: formatMarkdown on every string of up to MaxContentLen       *)
(* characters over a letter, the blanks and the line-ending characters.    *)
(***************************************************************************)
MaxContentLen == 5

ContentChars == {"x", " ", "\t", "\r", "\n"}

Contents == UNION {[1..n -> ContentChars] : n \in 0..MaxContentLen}

InitFormat ==
    /\ SessionOff
    /\ SpinnerOff
    /\ blockedPatterns = defaultBlockedPatterns
    /\ cwd = <<"/", "a">>
    /\ EmptyDir
    /\ arg \in Contents
    /\ res = Empty
    /\ phase = "in"
    /\ ncalls = 0
    /\ written = <<>>

CallFormatMarkdown ==
    /\ phase = "in"
    /\ res' = formatMarkdown(arg)
    /\ phase' = "out"
    /\ UNCHANGED <<spinnerVars, arg, ncalls, written, sessionVars, envVars>>

NextFormat == CallFormatMarkdown

SpecFormat == InitFormat /\ [][NextFormat]_vars

\* ---- C22 ----
\* the lines of a text that ends with a newline
LinesOf(text) == SubSeq(Split(text, "\n"), 1, Len(Split(text, "\n")) - 1)

NonBlank(line) == line # Empty

\* the lines of the input, under any of the three line endings, without
\* their trailing blanks
InputLines(content) ==
    [i \in 1..Len(Split(ReplaceCR(ReplaceCRLF(content)), "\n")) |->
        TrimRight(Split(ReplaceCR(ReplaceCRLF(content)), "\n")[i], {" ", "\t"})]

EndsWithOneNewline(text) ==
    /\ text # Empty
    /\ text[Len(text)] = "\n"
    /\ Len(text) >= 2 => text[Len(text) - 1] # "\n"

\* C22: for every input, the output of formatMarkdown contains no carriage
\* return, no line ending in a space or tab, no run of more than two
\* consecutive blank lines, keeps the non-blank lines in order, and ends
\* with exactly one newline.
C22_FormatMarkdownShape ==
    phase = "out" =>
        /\ \A i \in 1..Len(res) : res[i] # "\r"
        /\ \A i \in 1..Len(res) :
              res[i] \in {" ", "\t"} => (i < Len(res) /\ res[i + 1] # "\n")
        /\ \A i \in 1..(Len(LinesOf(res)) - 2) :
              ~(LinesOf(res)[i] = Empty /\ LinesOf(res)[i + 1] = Empty
                /\ LinesOf(res)[i + 2] = Empty)
        /\ SelectSeq(LinesOf(res), NonBlank) = SelectSeq(InputLines(arg), NonBlank)
        /\ EndsWithOneNewline(res)

\* an input with a carriage return, a trailing blank and three blank lines
\* before its text has been formatted
C22_Witness ==
    /\ phase = "out"
    /\ arg = <<"\r", " ", "\n", "\n", "x">>
    /\ res = <<"\n", "\n", "x", "\n">>


(***************************************************************************)
(* SpecRun: runCommand on every outcome of the external process: killed at *)
(* the deadline or not, zero or non-zero exit, any combined output of up   *)
(* to MaxOutputLen characters, within the 50000 characters kept or beyond. *)
(***************************************************************************)
MaxOutputLen == 3

Outputs == UNION {[1..n -> {"a", "\n"}] : n \in 0..MaxOutputLen}

Outcomes ==
    {Outcome(t, e, out, l) : t \in BOOLEAN, e \in BOOLEAN, out \in Outputs, l \in BOOLEAN}
    \ {Outcome(t, e, Empty, TRUE) : t \in BOOLEAN, e \in BOOLEAN}

InitRun ==
    /\ SessionOff
    /\ SpinnerOff
    /\ blockedPatterns = defaultBlockedPatterns
    /\ cwd = <<"/", "a">>
    /\ EmptyDir
    /\ arg \in Outcomes
    /\ res = [out |-> Empty, err |-> Nil]
    /\ phase = "in"
    /\ ncalls = 0
    /\ written = <<>>

CallRunCommand ==
    /\ phase = "in"
    /\ res' = runCommand(arg)
    /\ phase' = "out"
    /\ UNCHANGED <<spinnerVars, arg, ncalls, written, sessionVars, envVars>>

NextRun == CallRunCommand

SpecRun == InitRun /\ [][NextRun]_vars

\* ---- C24 ----
\* the combined output as runCommand keeps it
Kept(o) == IF o.long THEN o.output \o <<"\n... (output truncated)">> ELSE o.output

\* C24: if the deadline was exceeded the result of runCommand is the error
\* 'command timed out' with no output, whatever the process printed;
\* otherwise a non-zero exit with non-empty combined output is a success
\* returning that output, a non-zero exit with empty output is an error, and
\* a zero exit is a success.
C24_RunCommandOutcome ==
    phase = "out" =>
        /\ arg.timedOut => res = [out |-> Empty, err |-> <<"command timed out">>]
        /\ (~arg.timedOut /\ arg.exitErr /\ arg.output # Empty) =>
              res = [out |-> Kept(arg), err |-> Nil]
        /\ (~arg.timedOut /\ arg.exitErr /\ arg.output = Empty) =>
              (res.err \notin {Nil, <<"command timed out">>} /\ res.out = Empty)
        /\ (~arg.timedOut /\ ~arg.exitErr) => res = [out |-> Kept(arg), err |-> Nil]

\* a process killed at the deadline after it had printed something
C24_Witness ==
    /\ phase = "out"
    /\ arg.timedOut
    /\ arg.output # Empty
    /\ res.err = <<"command timed out">>


\* ---- C23 ----
\* the checks of a write_markdown call, as predicates of its arguments a,
\* the file system F and the outcomes env of the system calls
WPath(a) == getString(a.obj, "path", Empty)

NoPath(a) == WPath(a) = Empty

NotMarkdown(a) == ~HasSuffix(ToLower(WPath(a)), <<".", "m", "d">>)

NoContent(a) == getString(a.obj, "content", Empty) = Empty

Traverses(p) == validatePath(p).err # Nil

MkdirFails(a, F, env) == ~MkdirAll(F, Dir(validatePath(WPath(a)).out), env.mkdirOk).ok

\* the error of the first failing check from the target-exists check on
LateError(a, F, env) ==
    IF Exists(F, validatePath(WPath(a)).out) THEN <<"file already exists: ">> \o WPath(a)
    ELSE IF MkdirFails(a, F, env) THEN <<"failed to create directory: mkdir">>
    ELSE IF ~WriteFile(MkdirAll(F, Dir(validatePath(WPath(a)).out), env.mkdirOk).F,
                       validatePath(WPath(a)).out, Empty, env.write).ok
    THEN <<"failed to write file: open">>
    ELSE Nil

\* the error the order of C23 gives: path, extension, content, (formatting,)
\* path validation, target exists, directory creation, write
ErrorInStatedOrder(a, F, env) ==
    IF NoPath(a) THEN <<"path is required">>
    ELSE IF NotMarkdown(a) THEN <<"only markdown files (.md) can be created">>
    ELSE IF NoContent(a) THEN <<"content is required">>
    ELSE IF Traverses(WPath(a)) THEN validatePath(WPath(a)).err
    ELSE LateError(a, F, env)

\* the same order with the path validation of a string path moved to the front
ErrorValidationFirst(a, F, env) ==
    IF Has(a.obj, "path", "string") /\ Traverses(a.obj["path"].s)
    THEN validatePath(a.obj["path"].s).err
    ELSE IF NoPath(a) THEN <<"path is required">>
    ELSE IF NotMarkdown(a) THEN <<"only markdown files (.md) can be created">>
    ELSE IF NoContent(a) THEN <<"content is required">>
    ELSE LateError(a, F, env)

WriteCall == phase = "out" /\ arg.tool = "write_markdown" /\ arg.args.wellformed

\* C23 as stated: the error of a write_markdown call is that of the first
\* failing check in the order path non-empty, .md extension, content
\* non-empty, formatting, path validation, target exists, parent-directory
\* creation, write.
C23_Original ==
    WriteCall => res.err = ErrorInStatedOrder(arg.args, arg.F, arg.env)

\* C23, amended: the path validation of a string path comes first (it is
\* made before the call is dispatched); the other checks follow in the
\* stated order, and the error is that of the first check that fails.
C23_ChecksInOrder ==
    WriteCall => res.err = ErrorValidationFirst(arg.args, arg.F, arg.env)

\* a call that fails the extension, content and traversal checks at once
C23_Witness ==
    /\ WriteCall
    /\ NotMarkdown(arg.args) /\ NoContent(arg.args) /\ Traverses(WPath(arg.args))
    /\ res.err = <<"path traversal not allowed: ">> \o WPath(arg.args)


\* ---- C25 ----
\* the JSON type ToolDefinitions declares for each parameter
ParamType == [path |-> "string", pattern |-> "string", content |-> "string",
              lines |-> "number", recursive |-> "bool", depth |-> "number"]

DefinitionOf(tool) ==
    ToolDefinitions[CHOOSE i \in 1..Len(ToolDefinitions) :
                        ToolDefinitions[i].function.name = tool]

\* the arguments a of a call of a declared tool are in error: malformed
\* JSON, a required field missing, or a declared field of the wrong type
ArgumentError(tool, a) ==
    \/ ~a.wellformed
    \/ \E i \in 1..Len(DefinitionOf(tool).function.parameters.required) :
          DefinitionOf(tool).function.parameters.required[i] \notin DOMAIN a.obj
    \/ \E k \in DOMAIN a.obj \cap DefinitionOf(tool).function.parameters.properties :
          a.obj[k].t # ParamType[k]

\* C25: every argument error of a tool call (malformed JSON, a missing
\* required field, a field whose value has the wrong JSON type) is reported
\* as an error, which becomes the tool's result text.
C25_ArgumentErrorsReported ==
    (phase = "out" /\ arg.tool \in DeclaredNames /\ ArgumentError(arg.tool, arg.args)) =>
        res.err # Nil


(***************************************************************************)
(* ui.go: Spinner.  The struct is the record spinner; a channel is its     *)
(* number in chans; mu is 0 when free and the number of the holding thread *)
(* otherwise.  Each statement of Start, Stop and of the animation          *)
(* goroutine is one step, so that the reads of s.stop and s.stopped made   *)
(* without the mutex see whatever the field holds at that moment.          *)
(***************************************************************************)
MaxSpinnerCalls == 4

\* make(chan struct{}): the number of the new channel
Make == Len(chans) + 1

\* NewSpinner
NewSpinner ==
    /\ spinner = [running |-> FALSE, stop |-> 1, stopped |-> 2, mu |-> 0]
    /\ chans = <<"open", "open">>

\* thread t is at the statement where; a panic has ended the process
At(t, where) == ~panicked /\ callers[t].pc = where

\* goroutine g is at the statement where
AnimAt(g, where) == ~panicked /\ animations[g].pc = where

\* the variables no step of the spinner touches
restVars == <<sessionVars, envVars, arg, res, phase, written>>

Goto(t, where) == callers' = [callers EXCEPT ![t].pc = where]

\* close(c): a panic when c is closed already
Close(c) ==
    IF chans[c] = "closed"
    THEN panicked' = TRUE /\ UNCHANGED chans
    ELSE chans' = [chans EXCEPT ![c] = "closed"] /\ UNCHANGED panicked

\* ---- Start ----
\* s.mu.Lock()
StartLock(t) ==
    /\ At(t, "idle") /\ ncalls < MaxSpinnerCalls
    /\ spinner.mu = 0
    /\ spinner' = [spinner EXCEPT !.mu = t]
    /\ Goto(t, "Start:running")
    /\ ncalls' = ncalls + 1
    /\ UNCHANGED <<restVars, chans, animations, panicked>>

\* if s.running { s.mu.Unlock(); return }; s.running = true
StartRunning(t) ==
    /\ At(t, "Start:running")
    /\ IF spinner.running
       THEN spinner' = [spinner EXCEPT !.mu = 0] /\ Goto(t, "idle")
       ELSE spinner' = [spinner EXCEPT !.running = TRUE] /\ Goto(t, "Start:stop")
    /\ UNCHANGED <<restVars, chans, animations, panicked, ncalls>>

\* s.stop = make(chan struct{})
StartStop(t) ==
    /\ At(t, "Start:stop")
    /\ spinner' = [spinner EXCEPT !.stop = Make]
    /\ chans' = Append(chans, "open")
    /\ Goto(t, "Start:stopped")
    /\ UNCHANGED <<restVars, animations, panicked, ncalls>>

\* s.stopped = make(chan struct{})
StartStopped(t) ==
    /\ At(t, "Start:stopped")
    /\ spinner' = [spinner EXCEPT !.stopped = Make]
    /\ chans' = Append(chans, "open")
    /\ Goto(t, "Start:unlock")
    /\ UNCHANGED <<restVars, animations, panicked, ncalls>>

\* s.mu.Unlock()
StartUnlock(t) ==
    /\ At(t, "Start:unlock")
    /\ spinner' = [spinner EXCEPT !.mu = 0]
    /\ Goto(t, "Start:go")
    /\ UNCHANGED <<restVars, chans, animations, panicked, ncalls>>

\* go func() { ... }(): the goroutine exists, Start returns
StartGo(t) ==
    /\ At(t, "Start:go")
    /\ animations' = Append(animations, [pc |-> "defer", stopped |-> 0])
    /\ Goto(t, "idle")
    /\ UNCHANGED <<restVars, spinner, chans, panicked, ncalls>>

\* ---- the animation goroutine ----
\* defer close(s.stopped): the operand is evaluated now
AnimDefer(g) ==
    /\ AnimAt(g, "defer")
    /\ animations' = [animations EXCEPT ![g] = [pc |-> "select", stopped |-> spinner.stopped]]
    /\ UNCHANGED <<restVars, spinner, chans, callers, panicked, ncalls>>

\* select { case <-s.stop: return; default: print a frame and sleep }
AnimSelect(g) ==
    /\ AnimAt(g, "select")
    /\ IF chans[spinner.stop] = "closed"
       THEN animations' = [animations EXCEPT ![g].pc = "return"]
       ELSE UNCHANGED animations
    /\ UNCHANGED <<restVars, spinner, chans, callers, panicked, ncalls>>

\* the deferred close(s.stopped) runs and the goroutine is gone
AnimReturn(g) ==
    /\ AnimAt(g, "return")
    /\ Close(animations[g].stopped)
    /\ animations' = [animations EXCEPT ![g].pc = "done"]
    /\ UNCHANGED <<restVars, spinner, callers, ncalls>>

\* ---- Stop ----
\* s.mu.Lock()
StopLock(t) ==
    /\ At(t, "idle") /\ ncalls < MaxSpinnerCalls
    /\ spinner.mu = 0
    /\ spinner' = [spinner EXCEPT !.mu = t]
    /\ Goto(t, "Stop:running")
    /\ ncalls' = ncalls + 1
    /\ UNCHANGED <<restVars, chans, animations, panicked>>

\* if !s.running { s.mu.Unlock(); return }; s.running = false
StopRunning(t) ==
    /\ At(t, "Stop:running")
    /\ IF ~spinner.running
       THEN spinner' = [spinner EXCEPT !.mu = 0] /\ Goto(t, "idle")
       ELSE spinner' = [spinner EXCEPT !.running = FALSE] /\ Goto(t, "Stop:unlock")
    /\ UNCHANGED <<restVars, chans, animations, panicked, ncalls>>

\* s.mu.Unlock()
StopUnlock(t) ==
    /\ At(t, "Stop:unlock")
    /\ spinner' = [spinner EXCEPT !.mu = 0]
    /\ Goto(t, "Stop:close")
    /\ UNCHANGED <<restVars, chans, animations, panicked, ncalls>>

\* close(s.stop)
StopClose(t) ==
    /\ At(t, "Stop:close")
    /\ Close(spinner.stop)
    /\ Goto(t, "Stop:receive")
    /\ UNCHANGED <<restVars, spinner, animations, ncalls>>

\* <-s.stopped: the channel operand is evaluated
StopReceive(t) ==
    /\ At(t, "Stop:receive")
    /\ callers' = [callers EXCEPT ![t] = [pc |-> "Stop:wait", ch |-> spinner.stopped]]
    /\ UNCHANGED <<restVars, spinner, chans, animations, panicked, ncalls>>

\* the receive of Stop returning although the channel is still open
StopWait_NoWait(t) ==
    /\ At(t, "Stop:wait")
    /\ Goto(t, "idle")
    /\ UNCHANGED <<restVars, spinner, chans, animations, panicked, ncalls>>

\* the receive completes once the channel is closed, and Stop returns
StopWait(t) ==
    /\ At(t, "Stop:wait")
    /\ chans[callers[t].ch] = "closed"
    /\ Goto(t, "idle")
    /\ UNCHANGED <<restVars, spinner, chans, animations, panicked, ncalls>>

NextSpinner ==
    \/ \E t \in DOMAIN callers :
          \/ StartLock(t) \/ StartRunning(t) \/ StartStop(t) \/ StartStopped(t)
          \/ StartUnlock(t) \/ StartGo(t)
          \/ StopLock(t) \/ StopRunning(t) \/ StopUnlock(t) \/ StopClose(t)
          \/ StopReceive(t) \/ StopWait(t)
    \/ \E g \in DOMAIN animations : AnimDefer(g) \/ AnimSelect(g) \/ AnimReturn(g)

InitSpinner(threads) ==
    /\ SessionOff
    /\ blockedPatterns = defaultBlockedPatterns
    /\ cwd = <<"/", "a">>
    /\ EmptyDir
    /\ HarnessOff
    /\ NewSpinner
    /\ callers = [t \in threads |-> [pc |-> "idle", ch |-> 0]]
    /\ animations = <<>>
    /\ panicked = FALSE

\* one thread calls Start and Stop, as the REPL and its tool callback do
InitRepl == InitSpinner({1})

SpecRepl == InitRepl /\ [][NextSpinner]_vars

\* two threads call Start and Stop
InitThreads == InitSpinner({1, 2})

SpecThreads == InitThreads /\ [][NextSpinner]_vars


\* ---- C26 ----
\* the animation goroutines that have not terminated
Live == {g \in DOMAIN animations : animations[g].pc # "done"}

\* thread t is in a call that finds the spinner already in the state asked
\* for: Start while running, Stop while not running
NothingToDo(t) ==
    \/ At(t, "Start:running") /\ spinner.running
    \/ At(t, "Stop:running") /\ ~spinner.running

\* C26: for any sequence of Start and Stop calls made by a single thread,
\* Stop returns only after the animation goroutine has fully terminated,
\* Start while running and Stop while not running return at once without
\* any effect, and at most one animation goroutine exists at any time.
C26_SingleThreadSpinner ==
    /\ [](/\ ~panicked
          /\ Cardinality(Live) <= 1
          /\ (At(1, "idle") /\ ~spinner.running) => Live = {}
          /\ (At(1, "idle") /\ spinner.running) => Cardinality(Live) = 1)
    /\ [][(NothingToDo(1) /\ callers' # callers) =>
             /\ callers'[1].pc = "idle"
             /\ spinner'.running = spinner.running
             /\ UNCHANGED <<spinner.stop, spinner.stopped, chans, animations>>]_vars

\* Start, Start, Stop, Stop have returned: one goroutine ran and is gone
C26_Witness ==
    /\ At(1, "idle") /\ ncalls = 4
    /\ ~spinner.running
    /\ Len(animations) = 1 /\ animations[1].pc = "done"


\* ---- C30 ----
\* no Start or Stop call is in progress
Quiet == \A t \in DOMAIN callers : callers[t].pc = "idle"

\* C30: under every interleaving of Start and Stop calls issued by
\* concurrent threads the stop channel is never closed twice (no panic),
\* and whenever no Start or Stop is in progress the running flag is true
\* exactly when one animation goroutine is live.
C30_ConcurrentSpinnerSafe ==
    /\ ~panicked
    /\ Quiet => (spinner.running <=> Cardinality(Live) = 1)


(***************************************************************************)
(* SpecLoop: Chat against an endpoint that may answer each request in any  *)
(* way, for ever.  The loop of Chat looks only at the latest response, so  *)
(* the history is kept as the system message and its last MaxHistory - 1   *)
(* messages, and the history variables pre, rounds and log are not kept.   *)
(* Every HTTP request is answered and every tool execution completes: the  *)
(* steps of a Chat call in progress are taken under weak fairness.         *)
(***************************************************************************)
MaxHistory == 3

Window(msgs) ==
    IF Len(msgs) <= MaxHistory THEN msgs
    ELSE <<msgs[1]>> \o SubSeq(msgs, Len(msgs) - MaxHistory + 2, Len(msgs))

\* what the endpoint may answer: a failure, a final message, tool calls
LoopResponses ==
    FailResponses
    \cup {Response(TRUE, 200, TRUE, FALSE, <<m>>) : m \in FinalMessages}
    \cup {Response(TRUE, 200, TRUE, FALSE,
                   <<Message("assistant", Empty, tcs, Empty, Empty)>>) :
             tcs \in {<<ToolCallSeq[2]>>, <<ToolCallSeq[1], ToolCallSeq[3]>>}}

LoopChatStart ==
    /\ pc = "idle"
    /\ \E u \in UserTexts, cb \in BOOLEAN :
          /\ messages' = Window(Append(messages, Message("user", u, <<>>, Empty, Empty)))
          /\ hasCb' = cb
    /\ ret' = [state |-> "none", answer |-> Empty, err |-> Nil]
    /\ pc' = "request"
    /\ UNCHANGED <<spinnerVars, idx, assistantMsg, result, toolErr, inflight, pre, rounds, log,
                   envVars, harnessVars>>

LoopSendRequest ==
    /\ pc = "request"
    /\ inflight' = inflight + 1
    /\ pc' = "await"
    /\ UNCHANGED <<spinnerVars, messages, idx, assistantMsg, result, toolErr, ret, hasCb, pre,
                   rounds, log, envVars, harnessVars>>

\* the loop body after sendRequest returned sr
LoopBody(sr) ==
    IF sr.err # Nil
    THEN /\ ret' = [state |-> "error", answer |-> Empty, err |-> sr.err]
         /\ pc' = "idle"
         /\ UNCHANGED <<messages, idx, assistantMsg>>
    ELSE IF Len(sr.resp.choices) = 0
    THEN /\ ret' = [state |-> "error", answer |-> Empty, err |-> <<"no response from model">>]
         /\ pc' = "idle"
         /\ UNCHANGED <<messages, idx, assistantMsg>>
    ELSE /\ messages' = Window(Append(messages, sr.resp.choices[1]))
         /\ assistantMsg' = sr.resp.choices[1]
         /\ IF Len(sr.resp.choices[1].tool_calls) > 0
            THEN idx' = 1 /\ pc' = "exec" /\ UNCHANGED ret
            ELSE /\ ret' = [state |-> "ok", answer |-> FinalText(sr.resp.choices[1]),
                            err |-> Nil]
                 /\ pc' = "idle"
                 /\ UNCHANGED idx

LoopReceive ==
    /\ pc = "await"
    /\ inflight' = inflight - 1
    /\ \E r \in LoopResponses : LoopBody(sendRequest(r))
    /\ UNCHANGED <<spinnerVars, result, toolErr, hasCb, pre, rounds, log, envVars, harnessVars>>

LoopExecTool ==
    /\ pc = "exec"
    /\ \E env \in SessionEnvs :
       \E r \in {ExecuteTool(assistantMsg.tool_calls[idx].function.name,
                              assistantMsg.tool_calls[idx].function.arguments,
                              env, FS(fs, dirs))} :
              /\ result' = IF r.err # Nil THEN <<"Error: ">> \o r.err ELSE r.out
              /\ toolErr' = r.err
              /\ fs' = r.F.files
              /\ dirs' = r.F.dirs
    /\ pc' = IF hasCb THEN "callback" ELSE "append"
    /\ UNCHANGED <<spinnerVars, messages, idx, assistantMsg, ret, inflight, hasCb, pre, rounds,
                   log, blockedPatterns, cwd, harnessVars>>

LoopCallback ==
    /\ pc = "callback"
    /\ pc' = "append"
    /\ UNCHANGED <<spinnerVars, messages, idx, assistantMsg, result, toolErr, ret, inflight,
                   hasCb, pre, rounds, log, envVars, harnessVars>>

LoopAppendResult ==
    /\ pc = "append"
    /\ messages' = Window(Append(messages,
                                 Message("tool", result, <<>>,
                                         assistantMsg.tool_calls[idx].id, Empty)))
    /\ IF idx < Len(assistantMsg.tool_calls)
       THEN idx' = idx + 1 /\ pc' = "exec"
       ELSE idx' = idx /\ pc' = "request"
    /\ UNCHANGED <<spinnerVars, assistantMsg, result, toolErr, ret, inflight, hasCb, pre,
                   rounds, log, envVars, harnessVars>>

NextLoop ==
    \/ LoopChatStart
    \/ LoopSendRequest
    \/ LoopReceive
    \/ LoopExecTool
    \/ LoopCallback
    \/ LoopAppendResult

SpecLoop ==
    /\ InitSession
    /\ [][NextLoop]_vars
    /\ WF_vars(LoopSendRequest \/ LoopReceive \/ LoopExecTool \/ LoopCallback
               \/ LoopAppendResult)

\* ---- C27 ----
\* C27: every Chat call eventually returns, with a final answer or an
\* error, for every possible sequence of model responses, given that each
\* HTTP request and each tool execution completes.
C27_ChatReturns == (pc = "request") ~> (pc = "idle" /\ ret.state \in {"ok", "error"})


(***************************************************************************)
(* SpecSpell: IsPathBlocked, and cat through ExecuteTool, on two spellings *)
(* of one path below the working directory: plain relative, with a leading *)
(* "./", through "x/../", and absolute.                                    *)
(***************************************************************************)
\* the spellings of the relative path rel
Spellings(rel) ==
    {rel, <<".", "/">> \o rel, <<"x", "/", ".", ".", "/">> \o rel, cwd \o Slash \o rel}

SpelledFiles == {<<"m">>, <<".", "e", "n", "v">>, <<"d", "/", ".", "e", "n", "v">>,
                 <<".", "s", "s", "h", "/", "c", "o", "n", "f", "i", "g">>,
                 <<"d", "/", "i", "d", "_", "r", "s", "a">>,
                 <<".", "a", "w", "s", "/", "c", "r", "e", "d", "e", "n", "t", "i", "a", "l", "s">>,
                 <<"a", ".", "p", "e", "m">>}

InitSpell ==
    /\ SessionOff
    /\ SpinnerOff
    /\ blockedPatterns = defaultBlockedPatterns
    /\ cwd = <<"/", "a">>
    /\ EmptyDir
    /\ \E f \in SpelledFiles : arg \in [p : Spellings(f), q : Spellings(f)]
    /\ res = [p |-> FALSE, q |-> FALSE, catp |-> Nil, catq |-> Nil]
    /\ phase = "in"
    /\ ncalls = 0
    /\ written = <<>>

\* the error of cat on path p
Cat(p) ==
    ExecuteTool("cat", Obj([path |-> JStr(p)]),
                [mode |-> "given", matched |-> {},
                 p |-> <<Outcome(FALSE, FALSE, <<"output">>, FALSE),
                         Outcome(FALSE, FALSE, <<"output">>, FALSE)>>,
                 mkdirOk |-> TRUE, write |-> "ok"],
                FS(fs, dirs)).err

CallOnSpellings ==
    /\ phase = "in"
    /\ res' = [p |-> IsPathBlocked(arg.p), q |-> IsPathBlocked(arg.q),
               catp |-> Cat(arg.p), catq |-> Cat(arg.q)]
    /\ phase' = "out"
    /\ UNCHANGED <<spinnerVars, arg, ncalls, written, sessionVars, envVars>>

NextSpell == CallOnSpellings

SpecSpell == InitSpell /\ [][NextSpell]_vars

\* ---- C28 ----
\* C28: for two spellings of a path that validatePath accepts and that
\* denote the same file inside the working directory, IsPathBlocked gives
\* the same verdict, so a file cat refuses under one spelling is refused
\* under every spelling.
C28_SpellingIndependent ==
    (/\ phase = "out"
     /\ validatePath(arg.p).err = Nil /\ validatePath(arg.q).err = Nil
     /\ Abs(arg.p) = Abs(arg.q)) =>
        /\ res.p = res.q
        /\ (res.catp = Nil) <=> (res.catq = Nil)


\* ---- C29 ----
\* what a session reads of its state is what NewClient left: the history
\* holds the system message only, no call and no request is in progress
LikeNew == messages = <<SystemMessage>> /\ pc = "idle" /\ inflight = 0

\* the history holds, after the system message, one user message and
\* nothing older: what a new client has in its first Chat call
FirstTurnOnly ==
    /\ Len(messages) >= 2
    /\ messages[1] = SystemMessage
    /\ messages[2].role = "user"
    /\ \A i \in 3..Len(messages) : messages[i].role \in {"assistant", "tool"}

\* C29: after Reset the session is observationally equal to a freshly
\* constructed one: its state is that of a new client, the Chat call that
\* follows starts from the history of a new client, and every request of a
\* call started from there carries the system message, that call's user
\* message and what that call appended, never a message from before.
C29_ResetLikeNew ==
    /\ [](EndsWith("reset") => LikeNew)
    /\ []((pc # "idle" /\ pre = <<SystemMessage>>) => FirstTurnOnly)
    /\ [][(EndsWith("reset") /\ pc' # "idle") => pre' = <<SystemMessage>>]_vars

\* the first request of a Chat call made after a Reset is in flight: the
\* file a.md written in the conversation before the Reset is there, the
\* history holds the system message and the new user message
C29_Witness ==
    /\ pc = "await"
    /\ pre = <<SystemMessage>>
    /\ Len(messages) = 2
    /\ Abs(AMd) \in DOMAIN fs

====
